---- MODULE Spec2Model ----
(***************************************************************************)
(* Sprint scheduling and deadline classification of the thesis tracker     *)
(* (src/src/utils/text.ts, lines 16-237), with the call sites that build   *)
(* the schedule (src/src/App.tsx, src/scripts/sendReminder.ts).            *)
(*                                                                         *)
(* A JavaScript time value (milliseconds since the epoch, a double) is     *)
(* kept as the pair [day, ms] that denotes day * DAY_IN_MS + ms with       *)
(* 0 <= ms < DAY_IN_MS, so that sums of several weeks stay exact.  Day 0   *)
(* is Thursday 1970-01-01 UTC.  A Date object is its time value.           *)
(***************************************************************************)
EXTENDS Integers, Sequences, FiniteSets, TLC

VARIABLES
  pc,             \* which call of the core has returned
  zone,           \* the host's local time zone (what Date's local methods read)
  referenceDate,  \* buildSprintSchedule's options.referenceDate
  totalSprints,   \* buildSprintSchedule's options.totalSprints
  schedule,       \* the SprintScheduleEntry[] that buildSprintSchedule returned
  now,            \* the reference instant handed to getActiveSprint / describeTaskDeadline
  activeSprint,   \* what getActiveSprint returned
  tasks,          \* the Task[] handed to ensureSprintDates
  resolved,       \* resolveTaskSprintIndex of each task of tasks
  reconciled,     \* what ensureSprintDates(tasks, schedule) returned
  reconciledAgain,\* what ensureSprintDates(reconciled.tasks, schedule) returned
  descriptor,     \* what describeTaskDeadline(tasks[1], now) returned
  target,         \* the date handed to daysUntil
  remaining,      \* what daysUntil(target, now) returned
  nextReminder,   \* what getNextReminderDate(referenceDate) returned
  env,            \* process.env of the reminder job: the keys with a non-empty value
  board,          \* the Firestore document boards/{boardId}
  reminder,       \* the Firestore document reminders/{boardId}
  outbox,         \* the emails the SMTP transport has accepted
  job,            \* the reminder job's process: where main is, what it computed
  sessions,       \* the board sessions (App instances), by session id
  mutations,      \* how many user mutations the sessions have handled
  view            \* one App view with its effects, auth state and writes in flight

vars == <<pc, zone, referenceDate, totalSprints, schedule, now, activeSprint,
          tasks, resolved, reconciled, reconciledAgain,
          descriptor, target, remaining, nextReminder,
          env, board, reminder, outbox, job, sessions, mutations, view>>

(***************************************************************************)
(* Bounds of the model.                                                    *)
(***************************************************************************)
MaxSprints == 3
MaxTasks == 2
MaxDays == 2
MaxRuns == 2
MaxMutations == 1

(***************************************************************************)
(* Time values.                                                            *)
(***************************************************************************)
DAY_IN_MS == 24 * 60 * 60 * 1000
WEEK_IN_MS == DAY_IN_MS * 7
HOUR_IN_MS == 60 * 60 * 1000

\* The time value d * DAY_IN_MS + m, for any integer m.
Time(d, m) == [day |-> d + (m \div DAY_IN_MS), ms |-> m % DAY_IN_MS]

\* A number of milliseconds as a time value.
Ms(n) == Time(0, n)

Plus(a, b) == Time(a.day + b.day, a.ms + b.ms)
Minus(a, b) == Time(a.day - b.day, a.ms - b.ms)
\* k * a for an integer k and a whole number of days a (a.ms = 0).
Times(k, a) == Time(k * a.day, k * a.ms)

Lt(a, b) == a.day < b.day \/ (a.day = b.day /\ a.ms < b.ms)
Leq(a, b) == a = b \/ Lt(a, b)

\* CeilDaysFloored with Math.floor in place of Math.ceil.
CeilDaysFlooredByFloor(diff) == IF diff.day > 0 THEN diff.day ELSE 0

\* Math.max(0, Math.ceil(diff / DAY_IN_MS)) for the difference diff of two time values.
CeilDaysFloored(diff) ==
  LET ceil == IF diff.ms > 0 THEN diff.day + 1 ELSE diff.day
  IN IF ceil > 0 THEN ceil ELSE 0

(***************************************************************************)
(* Local time.  A zone has a UTC offset, and at most one change of it (a   *)
(* daylight-saving transition) in the weeks the model looks at:            *)
(*   UTC            the reminder job's host                                *)
(*   Johannesburg   UTC+2, no transitions                                  *)
(*   NewYork        UTC-4 until 2026-11-01T06:00Z (Sunday 02:00 local),    *)
(*                  UTC-5 after it                                         *)
(*   Sydney         UTC+10 until 2026-10-03T16:00Z (Sunday 02:00 local),   *)
(*                  UTC+11 after it                                        *)
(***************************************************************************)
Zones ==
  { [name |-> "UTC", before |-> 0, at |-> Time(0, 0), after |-> 0],
    [name |-> "Africa/Johannesburg", before |-> 2, at |-> Time(0, 0), after |-> 2],
    [name |-> "America/New_York", before |-> -4, at |-> Time(20758, 6 * HOUR_IN_MS), after |-> -5],
    [name |-> "Australia/Sydney", before |-> 10, at |-> Time(20729, 16 * HOUR_IN_MS), after |-> 11] }

\* The wall-clock reading of time value t in zone z, as a [day, ms] pair
\* (LocalTime(t) of ECMAScript).
ToLocal(z, t) ==
  Plus(t, Ms((IF Lt(t, z.at) THEN z.before ELSE z.after) * HOUR_IN_MS))

\* The time value of wall-clock reading w in zone z (UTC(t) of ECMAScript): a
\* reading that occurs twice is the earlier instant, one that is skipped is
\* read with the offset before the transition.
FromLocal(z, w) ==
  LET early == Minus(w, Ms(z.before * HOUR_IN_MS))
      late == Minus(w, Ms(z.after * HOUR_IN_MS))
  IN IF Lt(early, z.at) THEN early
     ELSE IF Leq(z.at, late) THEN late
     ELSE early

\* Date.prototype.getDay: the local weekday, 0 = Sunday.
getDay(z, t) == (ToLocal(z, t).day + 4) % 7

\* Date.prototype.getHours.
getHours(z, t) == ToLocal(z, t).ms \div HOUR_IN_MS

\* Date.prototype.setHours(h, m, s, ms): the same local day at that time of day.
setHours(z, t, h, m, s, milli) ==
  FromLocal(z, [day |-> ToLocal(z, t).day,
                ms |-> h * HOUR_IN_MS + m * 60 * 1000 + s * 1000 + milli])

\* date.setDate(date.getDate() + delta): the local day moved by delta days, the
\* time of day kept.
addLocalDays(z, t, delta) ==
  LET w == ToLocal(z, t)
  IN FromLocal(z, [day |-> w.day + delta, ms |-> w.ms])

(***************************************************************************)
(* Sprint schedule (text.ts, lines 56-95).                                 *)
(***************************************************************************)
\* startOfCurrentSprint moving forward to the Monday that follows.
startOfCurrentSprintNextMonday(z, reference) ==
  LET start == setHours(z, reference, 0, 0, 0, 0)
      day == getDay(z, start)
      distanceFromMonday == (day + 6) % 7
  IN addLocalDays(z, start, 7 - distanceFromMonday)

\* startOfCurrentSprint with the week taken to begin on Sunday.
startOfCurrentSprintFromSunday(z, reference) ==
  LET start == setHours(z, reference, 0, 0, 0, 0)
  IN addLocalDays(z, start, 0 - getDay(z, start))

startOfCurrentSprint(z, reference) ==
  LET start == setHours(z, reference, 0, 0, 0, 0)
      day == getDay(z, start)
      distanceFromMonday == (day + 6) % 7
  IN addLocalDays(z, start, 0 - distanceFromMonday)

\* Array.from({ length: n }, ...): ToLength takes a length below 0 as 0.
ToLength(n) == IF n > 0 THEN n ELSE 0

\* buildSprintSchedule with each end left at the first instant of its day.
buildSprintScheduleEndAtMidnight(z, reference, total) ==
  LET firstStart == startOfCurrentSprint(z, reference)
  IN [i \in 1..ToLength(total) |->
        LET idx == i - 1
            start == Plus(firstStart, Times(idx, Ms(WEEK_IN_MS)))
            end == Plus(start, Times(6, Ms(DAY_IN_MS)))
            overflowEnd == Plus(end, Ms(WEEK_IN_MS))
        IN [index |-> idx + 1, start |-> start, end |-> end,
            overflowEnd |-> overflowEnd]]

buildSprintSchedule(z, reference, total) ==
  LET firstStart == startOfCurrentSprint(z, reference)
  IN [i \in 1..ToLength(total) |->
        LET idx == i - 1
            start == Plus(firstStart, Times(idx, Ms(WEEK_IN_MS)))
            end == setHours(z, Plus(start, Times(6, Ms(DAY_IN_MS))), 23, 59, 59, 999)
            overflowEnd == Plus(end, Ms(WEEK_IN_MS))
        IN [index |-> idx + 1, start |-> start, end |-> end,
            overflowEnd |-> overflowEnd]]

\* (sprint) => referenceDate >= sprint.start && referenceDate <= sprint.overflowEnd
InSprintRange(sprint, reference) ==
  Leq(sprint.start, reference) /\ Leq(reference, sprint.overflowEnd)

\* Array.prototype.find: the first element that satisfies the predicate.
FirstIndex(S) == CHOOSE i \in S : \A j \in S : i <= j

\* getActiveSprint falling back to the first entry when no range holds the
\* instant.
getActiveSprintFirstFallback(z, sched, reference) ==
  IF Len(sched) = 0
    THEN buildSprintSchedule(z, reference, 1)[1]
    ELSE LET found == {i \in 1..Len(sched) : InSprintRange(sched[i], reference)}
         IN IF found # {} THEN sched[FirstIndex(found)] ELSE sched[1]

\* getActiveSprint returning the last entry whose range holds the instant.
getActiveSprintLastMatch(z, sched, reference) ==
  IF Len(sched) = 0
    THEN buildSprintSchedule(z, reference, 1)[1]
    ELSE LET found == {i \in 1..Len(sched) : InSprintRange(sched[i], reference)}
         IN IF found # {} THEN sched[CHOOSE i \in found : \A j \in found : j <= i]
            ELSE sched[Len(sched)]

getActiveSprint(z, sched, reference) ==
  IF Len(sched) = 0
    THEN buildSprintSchedule(z, reference, 1)[1]
    ELSE LET found == {i \in 1..Len(sched) : InSprintRange(sched[i], reference)}
         IN IF found # {} THEN sched[FirstIndex(found)] ELSE sched[Len(sched)]

(***************************************************************************)
(* JavaScript values of the optional task fields.  A value is a record     *)
(* with its kind; a number that may be fractional is kept as twice its     *)
(* value.  A tag is the sequence of its characters.                        *)
(***************************************************************************)
Undefined == [kind |-> "undefined"]
NaN == [kind |-> "NaN"]
Number(n) == [kind |-> "number", twice |-> 2 * n]
Half(n) == [kind |-> "number", twice |-> n]
Text(s) == [kind |-> "text", text |-> s]
Array(items) == [kind |-> "array", items |-> items]

\* a !== b for two primitive values: NaN differs from everything.
StrictNotEqual(a, b) == a.kind = "NaN" \/ b.kind = "NaN" \/ a # b

\* Date.prototype.toISOString: the UTC reading YYYY-MM-DDTHH:mm:ss.sssZ (the
\* calendar date stays the day number).
toISOString(t) ==
  [kind |-> "string",
   date |-> t.day,
   hours |-> t.ms \div HOUR_IN_MS,
   minutes |-> (t.ms % HOUR_IN_MS) \div (60 * 1000),
   seconds |-> (t.ms % (60 * 1000)) \div 1000,
   millis |-> t.ms % 1000]

\* new Date(isoString): the time value of an ISO string.
parseDate(iso) ==
  Time(iso.date,
       iso.hours * HOUR_IN_MS + iso.minutes * 60 * 1000 + iso.seconds * 1000
         + iso.millis)

(***************************************************************************)
(* Task sprint resolver (text.ts, lines 97-111).                           *)
(***************************************************************************)
Digits == {"0", "1", "2", "3", "4", "5", "6", "7", "8", "9"}

DigitValue(c) ==
  CASE c = "0" -> 0 [] c = "1" -> 1 [] c = "2" -> 2 [] c = "3" -> 3
    [] c = "4" -> 4 [] c = "5" -> 5 [] c = "6" -> 6 [] c = "7" -> 7
    [] c = "8" -> 8 [] c = "9" -> 9

\* The letters of "tag-week" under the i flag.
Lower(c) ==
  CASE c = "T" -> "t" [] c = "A" -> "a" [] c = "G" -> "g" [] c = "W" -> "w"
    [] c = "E" -> "e" [] c = "K" -> "k" [] OTHER -> c

TagWeek == <<"t", "a", "g", "-", "w", "e", "e", "k">>

\* /tag-week\d+/i matches tag at position i.
MatchesAt(tag, i) ==
  /\ i + Len(TagWeek) <= Len(tag)
  /\ \A k \in 1..Len(TagWeek) : Lower(tag[i + k - 1]) = TagWeek[k]
  /\ tag[i + Len(TagWeek)] \in Digits

\* /tag-week\d+/i.test(tag)
TestTagWeek(tag) == \E i \in 1..Len(tag) : MatchesAt(tag, i)

\* tag.match(/tag-week(\d+)/i)[1]: the digits after the leftmost match, as
\* many as follow.
MatchDigits(tag) ==
  LET at == FirstIndex({i \in 1..Len(tag) : MatchesAt(tag, i)})
      from == at + Len(TagWeek)
      upto == CHOOSE e \in from..Len(tag) :
                /\ \A k \in from..e : tag[k] \in Digits
                /\ (e = Len(tag) \/ tag[e + 1] \notin Digits)
  IN SubSeq(tag, from, upto)

RECURSIVE parseInt(_)
\* parseInt(digits, 10) of a run of decimal digits.
parseInt(digits) ==
  IF digits = <<>> THEN 0
  ELSE 10 * parseInt(SubSeq(digits, 1, Len(digits) - 1))
         + DigitValue(digits[Len(digits)])

\* Math.max(1, Math.floor(x)) of a number kept as twice its value.
MaxOneFloor(x) ==
  LET floor == x.twice \div 2
  IN IF floor > 1 THEN floor ELSE 1

resolveTaskSprintIndex(task) ==
  IF task.sprintIndex.kind = "number"
    THEN MaxOneFloor(task.sprintIndex)
    ELSE LET matching == IF task.tags.kind = "array"
                           THEN {i \in 1..Len(task.tags.items) :
                                   TestTagWeek(task.tags.items[i])}
                           ELSE {}
         IN IF matching # {}
              THEN parseInt(MatchDigits(task.tags.items[FirstIndex(matching)]))
              ELSE 1

(***************************************************************************)
(* Schedule reconciler (text.ts, lines 113-153).                           *)
(***************************************************************************)
\* Only called with a schedule that has an entry.
resolveWindowForTask(task, sched) ==
  LET sprintIndex == resolveTaskSprintIndex(task)
      found == {i \in 1..Len(sched) : sched[i].index = sprintIndex}
  IN IF found # {} THEN sched[FirstIndex(found)] ELSE sched[Len(sched)]

\* nextTask keeping the dates a task already has.
NextTaskKeepingDates(task, sched) ==
  LET sprintWindow == resolveWindowForTask(task, sched)
  IN [task EXCEPT
        !.sprintIndex = Number(resolveTaskSprintIndex(task)),
        !.dueDate = IF task.dueDate.kind = "string" THEN task.dueDate
                    ELSE toISOString(sprintWindow.end),
        !.overflowDate = IF task.overflowDate.kind = "string"
                           THEN task.overflowDate
                           ELSE toISOString(sprintWindow.overflowEnd),
        !.subtasks = IF task.subtasks.kind = "array" THEN task.subtasks
                     ELSE Array(<<>>)]

\* const nextTask = { ...task, sprintIndex, dueDate, overflowDate, subtasks }
NextTask(task, sched) ==
  LET sprintWindow == resolveWindowForTask(task, sched)
  IN [task EXCEPT
        !.sprintIndex = Number(resolveTaskSprintIndex(task)),
        !.dueDate = toISOString(sprintWindow.end),
        !.overflowDate = toISOString(sprintWindow.overflowEnd),
        !.subtasks = IF task.subtasks.kind = "array" THEN task.subtasks
                     ELSE Array(<<>>)]

\* The test that sets changed, looking at the two dates only.
TaskChangedDatesOnly(task, nextTask) ==
  \/ StrictNotEqual(task.dueDate, nextTask.dueDate)
  \/ StrictNotEqual(task.overflowDate, nextTask.overflowDate)

\* The test that sets changed.  task.subtasks !== nextTask.subtasks compares
\* references: the same array when the task had one, a new one otherwise.
TaskChanged(task, nextTask) ==
  \/ StrictNotEqual(task.dueDate, nextTask.dueDate)
  \/ StrictNotEqual(task.overflowDate, nextTask.overflowDate)
  \/ task.subtasks.kind # "array"
  \/ StrictNotEqual(task.sprintIndex, nextTask.sprintIndex)

\* With an empty schedule and a task to map, schedule[schedule.length - 1] is
\* undefined and sprintWindow.end throws a TypeError.
ensureSprintDates(list, sched) ==
  IF Len(sched) = 0 /\ Len(list) > 0
    THEN [threw |-> TRUE, tasks |-> <<>>, changed |-> FALSE]
    ELSE LET normalized == [i \in 1..Len(list) |-> NextTask(list[i], sched)]
         IN [threw |-> FALSE,
             tasks |-> normalized,
             changed |-> \E i \in 1..Len(list) :
                           TaskChanged(list[i], normalized[i])]

(***************************************************************************)
(* Deadline classifier and day counts (text.ts, lines 155-206, 231-237).   *)
(***************************************************************************)
\* dateFormatter.format(date): the weekday, month and day of the local date.
formatDisplayDate(z, date) == [localDay |-> ToLocal(z, date).day]

\* describeTaskDeadline with the due date as an exclusive boundary.
describeTaskDeadlineExclusive(z, task, at) ==
  LET hasDue == task.dueDate.kind = "string"
      hasOverflow == task.overflowDate.kind = "string"
      dueDate == parseDate(task.dueDate)
      overflowDate == parseDate(task.overflowDate)
  IN IF ~hasDue
       THEN [status |-> "none", label |-> [text |-> "No due date"],
             targetDate |-> Undefined]
     ELSE IF Lt(at, dueDate)
       THEN [status |-> "ontrack",
             label |-> [text |-> "remaining",
                        date |-> formatDisplayDate(z, dueDate),
                        daysLeft |-> CeilDaysFloored(Minus(dueDate, at))],
             targetDate |-> dueDate]
     ELSE IF hasOverflow /\ Leq(at, overflowDate)
       THEN [status |-> "overflow",
             label |-> [text |-> "Overflow buffer",
                        date |-> formatDisplayDate(z, overflowDate),
                        daysLeft |-> CeilDaysFloored(Minus(overflowDate, at))],
             targetDate |-> overflowDate]
     ELSE [status |-> "late",
           label |-> IF hasOverflow
                       THEN [text |-> "Past overflow",
                             date |-> formatDisplayDate(z, overflowDate)]
                       ELSE [text |-> "Past due",
                             date |-> formatDisplayDate(z, dueDate)],
           targetDate |-> IF hasOverflow THEN overflowDate ELSE dueDate]

\* describeTaskDeadline with the results of its last two branches exchanged.
describeTaskDeadlineLateFirst(z, task, at) ==
  LET hasDue == task.dueDate.kind = "string"
      hasOverflow == task.overflowDate.kind = "string"
      dueDate == parseDate(task.dueDate)
      overflowDate == parseDate(task.overflowDate)
  IN IF ~hasDue
       THEN [status |-> "none", label |-> [text |-> "No due date"],
             targetDate |-> Undefined]
     ELSE IF Leq(at, dueDate)
       THEN [status |-> "ontrack",
             label |-> [text |-> "remaining",
                        date |-> formatDisplayDate(z, dueDate),
                        daysLeft |-> CeilDaysFloored(Minus(dueDate, at))],
             targetDate |-> dueDate]
     ELSE IF hasOverflow /\ Leq(at, overflowDate)
       THEN [status |-> "late",
             label |-> [text |-> "Past overflow",
                        date |-> formatDisplayDate(z, overflowDate)],
             targetDate |-> overflowDate]
     ELSE [status |-> "overflow",
           label |-> [text |-> "Overflow buffer",
                      date |-> formatDisplayDate(z, dueDate),
                      daysLeft |-> 0],
           targetDate |-> dueDate]

describeTaskDeadline(z, task, at) ==
  LET hasDue == task.dueDate.kind = "string"
      hasOverflow == task.overflowDate.kind = "string"
      dueDate == parseDate(task.dueDate)
      overflowDate == parseDate(task.overflowDate)
  IN IF ~hasDue
       THEN [status |-> "none", label |-> [text |-> "No due date"],
             targetDate |-> Undefined]
     ELSE IF Leq(at, dueDate)
       THEN [status |-> "ontrack",
             label |-> [text |-> "remaining",
                        date |-> formatDisplayDate(z, dueDate),
                        daysLeft |-> CeilDaysFloored(Minus(dueDate, at))],
             targetDate |-> dueDate]
     ELSE IF hasOverflow /\ Leq(at, overflowDate)
       THEN [status |-> "overflow",
             label |-> [text |-> "Overflow buffer",
                        date |-> formatDisplayDate(z, overflowDate),
                        daysLeft |-> CeilDaysFloored(Minus(overflowDate, at))],
             targetDate |-> overflowDate]
     ELSE [status |-> "late",
           label |-> IF hasOverflow
                       THEN [text |-> "Past overflow",
                             date |-> formatDisplayDate(z, overflowDate)]
                       ELSE [text |-> "Past due",
                             date |-> formatDisplayDate(z, dueDate)],
           targetDate |-> IF hasOverflow THEN overflowDate ELSE dueDate]

\* date is a Date (a time value) or an ISO string.
daysUntil(date, reference) ==
  LET parsed == IF "kind" \in DOMAIN date THEN parseDate(date) ELSE date
  IN CeilDaysFloored(Minus(parsed, reference))

\* getNextReminderDate without the step to the following week.
getNextReminderDateSameWeek(z, reference) ==
  LET day == getDay(z, reference)
      diff == (5 - day + 7) % 7
  IN setHours(z, addLocalDays(z, reference, diff), 9, 0, 0, 0)

\* getNextReminderDate (text.ts, lines 212-225).
getNextReminderDate(z, reference) ==
  LET day == getDay(z, reference)
      diff0 == (5 - day + 7) % 7
      diff == IF diff0 = 0 /\ getHours(z, reference) >= 9 THEN 7 ELSE diff0
      next == addLocalDays(z, reference, diff)
  IN setHours(z, next, 9, 0, 0, 0)

(***************************************************************************)
(* The call sites that build the schedule (App.tsx, lines 211-214 and      *)
(* 250-261; sendReminder.ts, lines 52-56).                                 *)
(***************************************************************************)
\* Math.max over a non-empty set of integers.
MaxOf(S) == CHOOSE m \in S : \A n \in S : n <= m

\* seededSprintCount without the 1 that Math.max is seeded with.
seededSprintCountUnclamped(initialTasks) ==
  IF Len(initialTasks) = 0 THEN 0
  ELSE MaxOf({resolveTaskSprintIndex(initialTasks[i]) : i \in 1..Len(initialTasks)})

\* Math.max(1, ...initialTasks.map((task) => resolveTaskSprintIndex(task)))
seededSprintCount(initialTasks) ==
  MaxOf({1} \cup {resolveTaskSprintIndex(initialTasks[i]) : i \in 1..Len(initialTasks)})

\* const { referenceDate = new Date(), totalSprints = 4 } = options
DefaultTotalSprints == 4

(***************************************************************************)
(* The schedule builder and the active-sprint selector on their inputs.    *)
(***************************************************************************)
\* Local days of the reference instants: Mon 2026-09-28 .. Sun 2026-10-04 and
\* Mon 2026-10-26 .. Sun 2026-11-01, every weekday twice.
RefDays == (20724..20730) \cup (20752..20758)

\* Local times of day of the reference instants.
RefTimes == {0, 3 * HOUR_IN_MS, 9 * HOUR_IN_MS, DAY_IN_MS - 1}

NoResult == [threw |-> FALSE, tasks |-> <<>>, changed |-> FALSE]

reconcilerVars == <<tasks, resolved, reconciled, reconciledAgain>>

\* The reconciler's variables while it is not the function under study.
ReconcilerIdle ==
  /\ tasks = <<>>
  /\ resolved = <<>>
  /\ reconciled = NoResult
  /\ reconciledAgain = NoResult

NoDescriptor == [status |-> "", label |-> [text |-> ""], targetDate |-> Undefined]

deadlineVars == <<descriptor, target, remaining, nextReminder>>

\* The classifier's variables while it is not the function under study.
DeadlineIdle ==
  /\ descriptor = NoDescriptor
  /\ target = Undefined
  /\ remaining = 0
  /\ nextReminder = Undefined

\* No Firestore document at a path.
NoDocument == [exists |-> FALSE]

\* The reminder job's process before main is entered: where main is, the
\* number of the run, the exit code, what the run computed, and what it has
\* done so far (read the board, sent the email, written the reminder
\* document).  notifiedBefore is reminder.lastNotifiedAt as the run began.
NoJob ==
  [pc |-> "idle", run |-> 0, exitCode |-> 0, error |-> "",
   tasks |-> <<>>, activeSprint |-> [index |-> 0], sprintOutstanding |-> <<>>,
   readBoard |-> FALSE, mailed |-> FALSE, wrote |-> FALSE,
   notifiedBefore |-> [kind |-> "undefined"]]

sessionVars == <<sessions, mutations, view>>

\* The App view before it is rendered (App.tsx, lines 262-280): the state as
\* useState initialises it, no effect has run, no write is in flight, no
\* remote operation was issued.  currentUser tells whether auth.currentUser
\* is set, effects are the runs of the bootstrap effect, writes the setDoc
\* calls of persistTasks that have not completed, in the order issued.
NoView ==
  [mounted |-> FALSE, torn |-> FALSE, currentUser |-> FALSE,
   schedule |-> <<>>, activeSprint |-> Undefined, tasks |-> <<>>,
   isLoading |-> TRUE, isSaving |-> FALSE, error |-> "null",
   reminderSnapshot |-> FALSE,
   effects |-> <<>>, reminderListening |-> FALSE, reminderPending |-> FALSE,
   writes |-> <<>>, calls |-> 0, issued |-> 0, ops |-> {}]

\* No board session is open.
SessionsIdle ==
  /\ sessions = <<>>
  /\ mutations = 0
  /\ view = NoView

systemVars == <<env, board, reminder, outbox, job, sessionVars>>

\* The board, the reminder document and the job while the core is studied on
\* its own.
SystemIdle ==
  /\ env = {}
  /\ board = NoDocument
  /\ reminder = NoDocument
  /\ outbox = <<>>
  /\ job = NoJob
  /\ SessionsIdle

NoEntry == [index |-> 0, start |-> Time(0, 0), end |-> Time(0, 0),
            overflowEnd |-> Time(0, 0)]

\* The instants getActiveSprint is asked about: the reference instant of the
\* schedule and each boundary of each entry, with the millisecond before a
\* start and the millisecond after an end.
NowCandidates(sched, reference) ==
  {reference} \cup
  UNION { { Minus(sched[i].start, Ms(1)), sched[i].start,
            sched[i].end, Plus(sched[i].end, Ms(1)),
            sched[i].overflowEnd, Plus(sched[i].overflowEnd, Ms(1)) }
          : i \in 1..Len(sched) }

InitSchedule ==
  /\ pc = "input"
  /\ zone \in Zones
  /\ \E d \in RefDays, tm \in RefTimes : referenceDate = FromLocal(zone, [day |-> d, ms |-> tm])
  /\ totalSprints \in (-1)..MaxSprints
  /\ schedule = <<>>
  /\ now = referenceDate
  /\ activeSprint = NoEntry
  /\ ReconcilerIdle
  /\ DeadlineIdle
  /\ SystemIdle

BuildSchedule ==
  /\ pc = "input"
  /\ schedule' = buildSprintSchedule(zone, referenceDate, totalSprints)
  /\ pc' = "built"
  /\ UNCHANGED <<zone, referenceDate, totalSprints, now, activeSprint>>
  /\ UNCHANGED <<reconcilerVars, deadlineVars>>
  /\ UNCHANGED systemVars

GetActive ==
  /\ pc = "built"
  /\ \E n \in NowCandidates(schedule, referenceDate) :
       /\ now' = n
       /\ activeSprint' = getActiveSprint(zone, schedule, n)
  /\ pc' = "active"
  /\ UNCHANGED <<zone, referenceDate, totalSprints, schedule>>
  /\ UNCHANGED <<reconcilerVars, deadlineVars>>
  /\ UNCHANGED systemVars

NextSchedule == BuildSchedule \/ GetActive

SpecSchedule == InitSchedule /\ [][NextSchedule]_vars

(***************************************************************************)
(* Claims about the schedule builder and the active-sprint selector.       *)
(***************************************************************************)
Built == pc \in {"built", "active"}

\* C4: every entry of a schedule returned by buildSprintSchedule has
\* start <= end < overflowEnd, its end is 23:59:59.999 local time of the day
\* six days after its start, end - start is 7 days minus 1 ms, and
\* overflowEnd is end + exactly 7 days.
C4_WindowShape ==
  Built =>
    \A i \in 1..Len(schedule) :
      LET e == schedule[i]
      IN /\ Leq(e.start, e.end)
         /\ Lt(e.end, e.overflowEnd)
         /\ ToLocal(zone, e.end).day = ToLocal(zone, e.start).day + 6
         /\ ToLocal(zone, e.end).ms = DAY_IN_MS - 1
         /\ Minus(e.end, e.start) = Ms(WEEK_IN_MS - 1)
         /\ Minus(e.overflowEnd, e.end) = Ms(WEEK_IN_MS)

\* C5: for every reference date and count N >= 1 the schedule has exactly N
\* entries, entry i has index i, entry i+1 starts 7 days after entry i, and
\* the [start, end] weeks do not overlap: entry i ends before entry i+1 starts.
C5_ConsecutiveWeeks ==
  (Built /\ totalSprints >= 1) =>
    /\ Len(schedule) = totalSprints
    /\ \A i \in 1..Len(schedule) : schedule[i].index = i
    /\ \A i \in 1..(Len(schedule) - 1) :
         /\ schedule[i + 1].start = Plus(schedule[i].start, Ms(WEEK_IN_MS))
         /\ Lt(schedule[i].end, schedule[i + 1].start)

Containing == {i \in 1..Len(schedule) : InSprintRange(schedule[i], now)}

\* C10 as stated: at most one entry's [start, overflowEnd] range contains the
\* instant, and when one does getActiveSprint returns it.
C10_SingleContainingEntry ==
  (pc = "active" /\ Len(schedule) >= 1) =>
    /\ Cardinality(Containing) <= 1
    /\ \A i \in Containing : activeSprint = schedule[i]

\* C10 amended: when some entry's [start, overflowEnd] range contains the
\* instant, getActiveSprint returns the containing entry of lowest index
\* (ranges of neighbouring entries overlap, so several may contain it).
C10_FirstContainingEntry ==
  (pc = "active" /\ Len(schedule) >= 1 /\ Containing # {}) =>
    /\ activeSprint.index \in Containing
    /\ activeSprint = schedule[activeSprint.index]
    /\ \A i \in Containing : activeSprint.index <= i

\* C10 witness: the instant lies in the overflow week of entry 1 and in the
\* week of entry 2, and entry 1 was returned.
C10_Witness ==
  /\ pc = "active"
  /\ Len(schedule) >= 2
  /\ {1, 2} \subseteq Containing
  /\ activeSprint = schedule[1]

\* C11: getActiveSprint never fails: it returns an entry for every schedule
\* and instant.  When the instant is before the first entry's start or after
\* the last entry's overflowEnd it returns the last entry of the schedule, and
\* when the schedule is empty it returns the sole entry of a one-entry
\* schedule built at the instant: index 1, starting at the local Monday
\* midnight at or before the instant.
C11_FallbackNeverFails ==
  pc = "active" =>
    /\ activeSprint # NoEntry
    /\ activeSprint.index >= 1
    /\ Leq(activeSprint.start, activeSprint.end)
    /\ (Len(schedule) >= 1 /\ (Lt(now, schedule[1].start)
                                \/ Lt(schedule[Len(schedule)].overflowEnd, now)))
         => activeSprint = schedule[Len(schedule)]
    /\ (Len(schedule) >= 1 /\ Containing = {})
         => (Lt(now, schedule[1].start)
              \/ Lt(schedule[Len(schedule)].overflowEnd, now))
    /\ Len(schedule) = 0 =>
         /\ activeSprint = buildSprintSchedule(zone, now, 1)[1]
         /\ activeSprint.index = 1
         /\ getDay(zone, activeSprint.start) = 1
         /\ ToLocal(zone, activeSprint.start).ms = 0
         /\ InSprintRange(activeSprint, now)

\* C11 witness: the instant is one millisecond after the last overflowEnd of
\* a schedule of two or more entries, and the last entry was returned.
C11_Witness ==
  /\ pc = "active"
  /\ Len(schedule) >= 2
  /\ now = Plus(schedule[Len(schedule)].overflowEnd, Ms(1))
  /\ activeSprint = schedule[Len(schedule)]

\* C11 witness of the empty schedule: a count of 0 gave no entries and the
\* selector built its own entry around the instant.
C11_EmptyScheduleReached ==
  /\ pc = "active"
  /\ Len(schedule) = 0
  /\ activeSprint.index = 1
  /\ InSprintRange(activeSprint, now)

\* C12: for every reference instant D (any weekday and time of day) and every
\* count N >= 1, getActiveSprint(buildSprintSchedule({referenceDate: D,
\* totalSprints: N}), D) is the entry with index 1.
C12_ActiveAtReferenceIsFirst ==
  (pc = "active" /\ totalSprints >= 1 /\ now = referenceDate) =>
    /\ activeSprint = schedule[1]
    /\ activeSprint.index = 1

\* C12 witness: the reference instant is the last millisecond of the Sunday
\* on which New York's clocks go back, which the ranges of entries 1 and 2
\* both hold, and entry 1 was returned.
C12_Witness ==
  /\ pc = "active"
  /\ totalSprints >= 2
  /\ now = referenceDate
  /\ zone.name = "America/New_York"
  /\ ToLocal(zone, referenceDate) = [day |-> 20758, ms |-> DAY_IN_MS - 1]
  /\ {1, 2} \subseteq Containing
  /\ activeSprint.index = 1

(***************************************************************************)
(* The resolver and the reconciler on their inputs.                        *)
(***************************************************************************)
Tag(suffix) == TagWeek \o suffix

\* tag-week0, tag-week2, TAG-WEEK3, tag-week07, tag-week, tag-core.
TagWeek0 == Tag(<<"0">>)
TagWeek2 == Tag(<<"2">>)
TagWeek3Upper == <<"T", "A", "G", "-", "W", "E", "E", "K", "3">>
TagWeek07 == Tag(<<"0", "7">>)
TagWeekNoDigits == TagWeek
TagCore == <<"t", "a", "g", "-", "c", "o", "r", "e">>

NewTask(sprintIndex, tagList, dueDate, overflowDate, subtasks) ==
  [id |-> 0, type |-> "task-sprint", column |-> "todo",
   tags |-> tagList, sprintIndex |-> sprintIndex,
   dueDate |-> dueDate, overflowDate |-> overflowDate, subtasks |-> subtasks]

\* A task as first stored: no dates, no subtasks.
Fresh(sprintIndex, tagItems) ==
  NewTask(sprintIndex, Array(tagItems), Undefined, Undefined, Undefined)

\* Dates that no schedule of the model holds.
StaleDate == toISOString(Time(20000, 0))

\* The tasks handed to the reconciler: each way the sprint index is decided
\* (none, a tag, an explicit number that is fractional, non-positive or beyond
\* the schedule, NaN, a non-number), and each way a task can already agree
\* with entry 1 of the schedule.
TaskInputs(sched) ==
  LET due1 == toISOString(sched[1].end)
      overflow1 == toISOString(sched[1].overflowEnd)
  IN { Fresh(Undefined, <<>>),
       Fresh(Undefined, <<TagWeek2>>),
       Fresh(Undefined, <<TagWeek0>>),
       Fresh(Undefined, <<TagWeek3Upper>>),
       Fresh(Undefined, <<TagWeek07>>),
       Fresh(Undefined, <<TagCore, TagWeek2>>),
       Fresh(Undefined, <<TagWeekNoDigits>>),
       NewTask(Undefined, Undefined, Undefined, Undefined, Undefined),
       Fresh(NaN, <<TagWeek2>>),
       Fresh(Text("2"), <<>>),
       Fresh(Number(0), <<TagWeek2>>),
       Fresh(Number(-1), <<>>),
       Fresh(Half(5), <<>>),
       Fresh(Number(2), <<TagWeek0>>),
       Fresh(Number(9), <<>>),
       NewTask(Undefined, Array(<<TagWeek2>>), StaleDate, StaleDate, Array(<<>>)),
       NewTask(Number(1), Array(<<>>), due1, overflow1, Array(<<>>)),
       NewTask(Number(1), Array(<<>>), due1, overflow1, Undefined),
       NewTask(Undefined, Array(<<>>), due1, overflow1, Array(<<>>)) }

\* The task collections: up to MaxTasks tasks, the id of each its position.
TaskLists(sched) ==
  UNION { { [i \in 1..n |-> [list[i] EXCEPT !.id = i]] :
              list \in [1..n -> TaskInputs(sched)] } : n \in 0..MaxTasks }

ReconcilerZones == {z \in Zones : z.name \in {"UTC", "America/New_York"}}

InitReconciler ==
  /\ pc = "input"
  /\ zone \in ReconcilerZones
  /\ referenceDate = FromLocal(zone, [day |-> 20754, ms |-> 12 * HOUR_IN_MS])
  /\ totalSprints \in 1..MaxSprints
  /\ schedule = buildSprintSchedule(zone, referenceDate, totalSprints)
  /\ now = referenceDate
  /\ activeSprint = NoEntry
  /\ tasks \in TaskLists(schedule)
  /\ resolved = <<>>
  /\ reconciled = NoResult
  /\ reconciledAgain = NoResult
  /\ DeadlineIdle
  /\ SystemIdle

scheduleVars == <<zone, referenceDate, totalSprints, schedule, now, activeSprint>>

Resolve ==
  /\ pc = "input"
  /\ resolved' = [i \in 1..Len(tasks) |-> resolveTaskSprintIndex(tasks[i])]
  /\ pc' = "resolved"
  /\ UNCHANGED <<tasks, reconciled, reconciledAgain>>
  /\ UNCHANGED <<scheduleVars, deadlineVars>>
  /\ UNCHANGED systemVars

Reconcile ==
  /\ pc = "resolved"
  /\ reconciled' = ensureSprintDates(tasks, schedule)
  /\ pc' = "reconciled"
  /\ UNCHANGED <<tasks, resolved, reconciledAgain>>
  /\ UNCHANGED <<scheduleVars, deadlineVars>>
  /\ UNCHANGED systemVars

ReconcileAgain ==
  /\ pc = "reconciled"
  /\ ~reconciled.threw
  /\ reconciledAgain' = ensureSprintDates(reconciled.tasks, schedule)
  /\ pc' = "again"
  /\ UNCHANGED <<tasks, resolved, reconciled>>
  /\ UNCHANGED <<scheduleVars, deadlineVars>>
  /\ UNCHANGED systemVars

NextReconciler == Resolve \/ Reconcile \/ ReconcileAgain

SpecReconciler == InitReconciler /\ [][NextReconciler]_vars

(***************************************************************************)
(* Claims about the resolver and the reconciler.                           *)
(***************************************************************************)
\* C1: ensureSprintDates is idempotent: reconciling the tasks it returned
\* against the same non-empty schedule reports changed = false.
C1_Idempotent ==
  pc = "again" => ~reconciledAgain.changed

\* C2: resolveTaskSprintIndex returns an integer >= 1 for every task,
\* whichever branch decides: an explicit number, a tag-week<digits> tag, or
\* the default.
C2_ResolvedAtLeastOne ==
  pc # "input" =>
    \A i \in 1..Len(resolved) : resolved[i] \in Int /\ resolved[i] >= 1

\* C3: after ensureSprintDates with a non-empty schedule, every output task's
\* dueDate is the end, and its overflowDate the overflowEnd, of the schedule
\* entry whose index is the task's resolved sprint index, or of the last
\* entry when that index exceeds the schedule length.
C3_DatesOfResolvedEntry ==
  pc \in {"reconciled", "again"} =>
    \A i \in 1..Len(reconciled.tasks) :
      LET task == reconciled.tasks[i]
          index == resolveTaskSprintIndex(task)
          entry == IF index > Len(schedule) THEN schedule[Len(schedule)]
                   ELSE schedule[index]
      IN /\ task.dueDate = toISOString(entry.end)
         /\ task.overflowDate = toISOString(entry.overflowEnd)

\* C14: the changed flag returned by ensureSprintDates is true if and only if
\* at least one task's dueDate, overflowDate, subtasks (a present array
\* against an absent or non-array value) or sprintIndex in the output differs
\* from its value in the input; when changed is false the output collection
\* equals the input collection field for field.
C14_ChangedIffFieldDiffers ==
  pc \in {"reconciled", "again"} =>
    LET out == reconciled.tasks
        differs(i) ==
          \/ tasks[i].dueDate # out[i].dueDate
          \/ tasks[i].overflowDate # out[i].overflowDate
          \/ tasks[i].subtasks.kind # "array"
          \/ tasks[i].sprintIndex # out[i].sprintIndex
    IN /\ Len(out) = Len(tasks)
       /\ reconciled.changed <=> \E i \in 1..Len(tasks) : differs(i)
       /\ ~reconciled.changed => out = tasks

\* C14 witness: a task that already has the sprint index and the dates of
\* entry 1 and lacks only the subtasks array, so that changed is true on
\* account of subtasks alone.
C14_Witness ==
  /\ pc = "reconciled"
  /\ Len(tasks) = 1
  /\ tasks[1].subtasks.kind = "undefined"
  /\ tasks[1].sprintIndex = reconciled.tasks[1].sprintIndex
  /\ tasks[1].dueDate = reconciled.tasks[1].dueDate
  /\ tasks[1].overflowDate = reconciled.tasks[1].overflowDate
  /\ reconciled.changed

\* A collection that needed nothing: changed is false and the output is the
\* input.
C14_UnchangedReached ==
  /\ pc = "reconciled"
  /\ Len(tasks) >= 1
  /\ ~reconciled.changed
  /\ reconciled.tasks = tasks

(***************************************************************************)
(* The deadline classifier and daysUntil on their inputs.                  *)
(***************************************************************************)
\* Sunday 2026-11-01T23:59:59.999Z, the end of a sprint week.
DeadlineBase == Time(20758, DAY_IN_MS - 1)

\* Instants up to MaxDays days before and after the base, each with the
\* millisecond before and after it and one half a day later.
DeadlineInstants ==
  { Plus(DeadlineBase, Time(d, m)) :
      d \in (0 - MaxDays)..MaxDays, m \in {-1, 0, 1, 12 * HOUR_IN_MS} }

InitDeadline ==
  /\ pc = "input"
  /\ zone \in ReconcilerZones
  /\ referenceDate = DeadlineBase
  /\ totalSprints = 0
  /\ schedule = <<>>
  /\ now \in DeadlineInstants
  /\ activeSprint = NoEntry
  /\ \E due \in {Undefined, toISOString(DeadlineBase),
                 toISOString(Plus(DeadlineBase, Ms(12 * HOUR_IN_MS)))},
        overflow \in {Undefined} \cup {toISOString(t) : t \in DeadlineInstants} :
       tasks = <<NewTask(Number(1), Array(<<>>), due, overflow, Array(<<>>))>>
  /\ resolved = <<>>
  /\ reconciled = NoResult
  /\ reconciledAgain = NoResult
  /\ DeadlineIdle
  /\ SystemIdle

Describe ==
  /\ pc = "input"
  /\ descriptor' = describeTaskDeadline(zone, tasks[1], now)
  /\ pc' = "described"
  /\ UNCHANGED <<target, remaining, nextReminder>>
  /\ UNCHANGED <<scheduleVars, reconcilerVars>>
  /\ UNCHANGED systemVars

\* daysUntil is handed a Date or an ISO string.
DaysUntil ==
  /\ pc = "described"
  /\ \E date \in {tasks[1].dueDate, tasks[1].overflowDate} :
       /\ date.kind = "string"
       /\ target' \in {date, parseDate(date)}
  /\ remaining' = daysUntil(target', now)
  /\ pc' = "counted"
  /\ UNCHANGED <<descriptor, nextReminder>>
  /\ UNCHANGED <<scheduleVars, reconcilerVars>>
  /\ UNCHANGED systemVars

NextDeadline == Describe \/ DaysUntil

SpecDeadline == InitDeadline /\ [][NextDeadline]_vars

(***************************************************************************)
(* Claims about the deadline classifier and the day counts.                *)
(***************************************************************************)
Described == pc \in {"described", "counted"}

\* C8: with a due date present the status is ontrack exactly when
\* now <= dueDate, overflow exactly when dueDate < now <= overflowDate (an
\* overflow date being present), late exactly when now > dueDate and there is
\* no overflow date or now > overflowDate; with no due date it is none.
C8_InclusiveBoundaries ==
  Described =>
    LET task == tasks[1]
        hasDue == task.dueDate.kind = "string"
        hasOverflow == task.overflowDate.kind = "string"
        due == parseDate(task.dueDate)
        overflow == parseDate(task.overflowDate)
    IN /\ descriptor.status \in {"none", "ontrack", "overflow", "late"}
       /\ descriptor.status = "none" <=> ~hasDue
       /\ hasDue =>
            /\ descriptor.status = "ontrack" <=> ~Lt(due, now)
            /\ descriptor.status = "overflow" <=>
                 (hasOverflow /\ Lt(due, now) /\ ~Lt(overflow, now))
            /\ descriptor.status = "late" <=>
                 (Lt(due, now) /\ (~hasOverflow \/ Lt(overflow, now)))
       /\ (hasDue /\ hasOverflow /\ now = Plus(overflow, Ms(1)) /\ Lt(due, now))
            => descriptor.status = "late"

\* C8 witness: now is the overflow date to the millisecond, after the due
\* date, and the status is overflow.
C8_Witness ==
  /\ Described
  /\ tasks[1].dueDate.kind = "string"
  /\ tasks[1].overflowDate.kind = "string"
  /\ Lt(parseDate(tasks[1].dueDate), now)
  /\ now = parseDate(tasks[1].overflowDate)
  /\ descriptor.status = "overflow"

\* A count of days n is the number of days from at to date rounded up and
\* floored at 0: it is never negative, it is 0 exactly when date <= at, and
\* otherwise date lies more than n - 1 and at most n whole days after at.
IsDaysRoundedUp(n, date, at) ==
  /\ n \in Nat
  /\ n = 0 <=> Leq(date, at)
  /\ n > 0 => /\ Lt(Plus(at, Time(n - 1, 0)), date)
              /\ Leq(date, Plus(at, Time(n, 0)))

\* C9: every remaining-day count of describeTaskDeadline (ontrack and
\* overflow labels) and of daysUntil is the ceiling of (target - now) / 1 day
\* floored at 0.
C9_DaysRoundedUp ==
  /\ (Described /\ descriptor.status \in {"ontrack", "overflow"}) =>
       IsDaysRoundedUp(descriptor.label.daysLeft, descriptor.targetDate, now)
  /\ pc = "counted" =>
       IsDaysRoundedUp(remaining,
                       IF "kind" \in DOMAIN target THEN parseDate(target)
                       ELSE target,
                       now)

\* C9 witness: one millisecond before the due date the label says one day
\* remains, and daysUntil of a date that has passed is 0.
C9_Witness ==
  /\ pc = "counted"
  /\ descriptor.status = "ontrack"
  /\ Minus(descriptor.targetDate, now) = Ms(1)
  /\ descriptor.label.daysLeft = 1
  /\ remaining = 0

(***************************************************************************)
(* The builder as the library offers it and as its callers use it: the     *)
(* board session at mount and the reminder job on a run.                   *)
(***************************************************************************)
\* The seed tasks of the board (data/initialTasks) and the tasks of a stored
\* board document: tasks whose resolved index is 0, 1, 2 and 9.
SeedInputs ==
  { Fresh(Undefined, <<TagWeek0>>), Fresh(Undefined, <<>>),
    Fresh(Undefined, <<TagWeek2>>), Fresh(Number(9), <<>>) }

SeedLists ==
  UNION { { [i \in 1..n |-> [list[i] EXCEPT !.id = i]] :
              list \in [1..n -> SeedInputs] } : n \in 0..MaxTasks }

InitCallers ==
  /\ pc = "input"
  /\ zone \in ReconcilerZones
  /\ \E tm \in RefTimes : referenceDate = FromLocal(zone, [day |-> 20754, ms |-> tm])
  /\ totalSprints \in (-1)..MaxSprints
  /\ schedule = <<>>
  /\ now = referenceDate
  /\ activeSprint = NoEntry
  /\ tasks \in SeedLists
  /\ resolved = <<>>
  /\ reconciled = NoResult
  /\ reconciledAgain = NoResult
  /\ DeadlineIdle
  /\ SystemIdle

\* App: seededSprintCount, the sprintSchedule and activeSprint memos and the
\* initial tasks state, with tasks the seed tasks and now the clock.
AppMount ==
  /\ pc = "input"
  /\ totalSprints' = seededSprintCount(tasks)
  /\ schedule' = buildSprintSchedule(zone, now, totalSprints')
  /\ activeSprint' = getActiveSprint(zone, schedule', now)
  /\ reconciled' = ensureSprintDates(tasks, schedule')
  /\ pc' = "mounted"
  /\ UNCHANGED <<zone, referenceDate, now, tasks, resolved, reconciledAgain>>
  /\ UNCHANGED deadlineVars
  /\ UNCHANGED systemVars

\* main of the reminder job from the board's tasks to the active sprint,
\* with tasks the stored board's tasks and now the clock.
ReminderReconcile ==
  /\ pc = "input"
  /\ totalSprints' = DefaultTotalSprints
  /\ schedule' = buildSprintSchedule(zone, now, totalSprints')
  /\ reconciled' = ensureSprintDates(tasks, schedule')
  /\ activeSprint' = getActiveSprint(zone, schedule', now)
  /\ pc' = "job"
  /\ UNCHANGED <<zone, referenceDate, now, tasks, resolved, reconciledAgain>>
  /\ UNCHANGED deadlineVars
  /\ UNCHANGED systemVars

NextCallers == BuildSchedule \/ AppMount \/ ReminderReconcile

SpecCallers == InitCallers /\ [][NextCallers]_vars

\* C7 as stated: a requested count of 0 or below is treated as 1, the
\* schedule built for it has exactly one entry, and so no schedule the board
\* session or the reminder job hands on is empty.
C7_NonPositiveCountGivesOneEntry ==
  /\ (pc = "built" /\ totalSprints <= 0) => Len(schedule) = 1
  /\ pc \in {"mounted", "job"} => Len(schedule) >= 1

\* C7 amended: buildSprintSchedule does not clamp, a count of 0 or below
\* gives the empty schedule; its callers never ask for one (the board session
\* asks for max(1, the seed tasks' indices), the reminder job for the default
\* 4), so the schedule they hand to ensureSprintDates and getActiveSprint has
\* an entry and ensureSprintDates returns.
C7_CallersNeverBuildEmpty ==
  /\ (pc = "built" /\ totalSprints <= 0) => Len(schedule) = 0
  /\ pc = "mounted" =>
       /\ totalSprints >= 1
       /\ Len(schedule) = totalSprints
       /\ ~reconciled.threw
  /\ pc = "job" =>
       /\ Len(schedule) = DefaultTotalSprints
       /\ ~reconciled.threw

\* C7 witness: the board session mounted with seed tasks that all resolve to
\* index 0, and its schedule has one entry.
C7_Witness ==
  /\ pc = "mounted"
  /\ Len(tasks) >= 1
  /\ \A i \in 1..Len(tasks) : resolveTaskSprintIndex(tasks[i]) = 0
  /\ Len(schedule) = 1
  /\ Len(reconciled.tasks) = Len(tasks)

(***************************************************************************)
(* The five core functions on the edge cases of their inputs: an empty     *)
(* schedule, a task with no due date, a sprint tag without digits, a       *)
(* sprint index beyond the schedule, a sprintIndex that is not a number.   *)
(***************************************************************************)
EdgeTasks ==
  { Fresh(Undefined, <<>>),
    Fresh(Undefined, <<TagWeekNoDigits>>),
    Fresh(Number(9), <<>>),
    Fresh(Text("2"), <<>>),
    Fresh(NaN, <<TagCore>>) }

EdgeLists ==
  UNION { { [i \in 1..n |-> [list[i] EXCEPT !.id = i]] :
              list \in [1..n -> EdgeTasks] } : n \in 0..MaxTasks }

InitEdgeCases ==
  /\ pc = "input"
  /\ zone \in ReconcilerZones
  /\ referenceDate = FromLocal(zone, [day |-> 20754, ms |-> 12 * HOUR_IN_MS])
  /\ totalSprints \in 0..MaxSprints
  /\ schedule = <<>>
  /\ now = referenceDate
  /\ activeSprint = NoEntry
  /\ tasks \in EdgeLists
  /\ resolved = <<>>
  /\ reconciled = NoResult
  /\ reconciledAgain = NoResult
  /\ DeadlineIdle
  /\ SystemIdle

\* resolveTaskSprintIndex on each task, once the active sprint is known.
ResolveTasks ==
  /\ pc = "active"
  /\ resolved' = [i \in 1..Len(tasks) |-> resolveTaskSprintIndex(tasks[i])]
  /\ pc' = "resolved"
  /\ UNCHANGED <<tasks, reconciled, reconciledAgain>>
  /\ UNCHANGED <<scheduleVars, deadlineVars>>
  /\ UNCHANGED systemVars

\* describeTaskDeadline on a task as it was handed in or as the reconciler
\* returned it.
DescribeTask ==
  /\ pc \in {"reconciled", "again"}
  /\ \E task \in {tasks[i] : i \in 1..Len(tasks)}
                 \cup {reconciled.tasks[i] : i \in 1..Len(reconciled.tasks)} :
       descriptor' = describeTaskDeadline(zone, task, now)
  /\ pc' = "described"
  /\ UNCHANGED <<target, remaining, nextReminder>>
  /\ UNCHANGED <<scheduleVars, reconcilerVars>>
  /\ UNCHANGED systemVars

NextEdgeCases ==
  BuildSchedule \/ GetActive \/ ResolveTasks \/ Reconcile \/ ReconcileAgain
    \/ DescribeTask

SpecEdgeCases == InitEdgeCases /\ [][NextEdgeCases]_vars

\* The parts of totality that do not depend on ensureSprintDates returning:
\* the selector returned an entry, every resolved index is an integer, and
\* the classifier returned one of its four statuses.
TotalBesidesReconciler ==
  /\ pc \notin {"input", "built"} => activeSprint.index >= 1
  /\ \A i \in 1..Len(resolved) : resolved[i] \in Int
  /\ pc = "described" =>
       descriptor.status \in {"none", "ontrack", "overflow", "late"}

\* C13: all five core functions are total: for an empty schedule, a missing
\* due date, an unparseable sprint tag, a sprint index beyond the schedule
\* and a non-numeric sprintIndex each returns a value and none raises an
\* error; in particular ensureSprintDates on a non-empty task collection with
\* an empty schedule returns a result, one output task per input task.
C13_CoreIsTotal ==
  /\ TotalBesidesReconciler
  /\ pc \in {"reconciled", "again", "described"} =>
       /\ ~reconciled.threw
       /\ Len(reconciled.tasks) = Len(tasks)

(***************************************************************************)
(* The reminder job (scripts/sendReminder.ts).  main runs from one await   *)
(* to the next: the board read, the email dispatch and the write of the    *)
(* reminder document each complete or reject on their own.                 *)
(***************************************************************************)
RequiredEnv ==
  <<"FIREBASE_SERVICE_ACCOUNT", "REMINDER_TO_EMAIL", "REMINDER_FROM_EMAIL",
    "SMTP_HOST", "SMTP_PORT", "SMTP_USERNAME", "SMTP_PASSWORD">>

\* requireEnv that accepts a missing value.
requireEnvLenient(e, key) == [threw |-> FALSE, key |-> key]

\* requireEnv(key): throws when process.env[key] is undefined or empty.
requireEnv(e, key) == [threw |-> key \notin e, key |-> key]

\* The requireEnv calls of main that throw, by position.
MissingEnv(e) ==
  {i \in 1..Len(RequiredEnv) : requireEnv(e, RequiredEnv[i]).threw}

\* getOutstandingTasks keeping the tasks of the done column.
getOutstandingTasksWithDone(list) == list

getOutstandingTasks(list) ==
  SelectSeq(list, LAMBDA task : task.column # "done")

\* const sprintOutstanding = outstanding.filter(...)
SprintOutstanding(list, active) ==
  SelectSeq(getOutstandingTasks(list),
            LAMBDA task : /\ task.type = "task-sprint"
                          /\ resolveTaskSprintIndex(task) = active.index)

\* The snapshot field of both writes.
ReminderSnapshot(at, active, outstanding) ==
  [generatedAt |-> at,
   sprintIndex |-> active.index,
   sprintStart |-> toISOString(active.start),
   sprintEnd |-> toISOString(active.end),
   overflowEnd |-> toISOString(active.overflowEnd),
   outstandingCount |-> Len(outstanding),
   outstandingTasks |->
     [i \in 1..Len(outstanding) |->
        [id |-> outstanding[i].id, column |-> outstanding[i].column,
         dueDate |-> outstanding[i].dueDate,
         overflowDate |-> outstanding[i].overflowDate]]]

\* ReminderData stamping lastNotifiedAt on every write.
ReminderDataAlwaysNotified(at, active, outstanding) ==
  [email |-> "REMINDER_TO_EMAIL", lastNotifiedAt |-> at,
   snapshot |-> ReminderSnapshot(at, active, outstanding)]

\* The data of the write: without lastNotifiedAt when nothing is outstanding
\* (lines 70-81), with it after an email (lines 133-151).
ReminderData(at, active, outstanding) ==
  IF Len(outstanding) = 0
    THEN [email |-> "REMINDER_TO_EMAIL",
          snapshot |-> ReminderSnapshot(at, active, <<>>)]
    ELSE [email |-> "REMINDER_TO_EMAIL", lastNotifiedAt |-> at,
          snapshot |-> ReminderSnapshot(at, active, outstanding)]

\* DocumentReference.set(data, { merge: true }): the fields of data replace
\* those of the document, the other fields stay.
SetMerge(doc, data) ==
  [k \in (DOMAIN doc \cup DOMAIN data) \cup {"exists"} |->
     IF k = "exists" THEN TRUE
     ELSE IF k \in DOMAIN data THEN data[k]
     ELSE doc[k]]

\* doc.lastNotifiedAt, undefined when the document or the field is absent.
LastNotifiedAt(doc) ==
  IF "lastNotifiedAt" \in DOMAIN doc THEN doc.lastNotifiedAt ELSE Undefined

\* The tasks of a stored board: a sprint task of the first sprint, one that is
\* done, one tagged for the second sprint, a micro task, and a sprint task
\* tagged tag-week0.
JobTasks ==
  { Fresh(Undefined, <<>>),
    [Fresh(Undefined, <<>>) EXCEPT !.column = "done"],
    Fresh(Undefined, <<TagWeek2>>),
    [Fresh(Undefined, <<>>) EXCEPT !.type = "task-micro"],
    Fresh(Undefined, <<TagWeek0>>) }

JobLists ==
  UNION { { [i \in 1..n |-> [list[i] EXCEPT !.id = i]] :
              list \in [1..n -> JobTasks] } : n \in 0..MaxTasks }

\* The board document: absent, without a tasks array, or with one.
BoardDocuments ==
  {NoDocument, [exists |-> TRUE, tasks |-> Undefined]}
    \cup {[exists |-> TRUE, tasks |-> Array(list)] : list \in JobLists}

\* Friday 2026-10-30 09:00 UTC, the scheduled trigger.
JobBase == Time(20756, 9 * HOUR_IN_MS)

\* The reminder document an earlier run left after an email.
EarlierReminder ==
  [exists |-> TRUE, email |-> "REMINDER_TO_EMAIL",
   lastNotifiedAt |-> Minus(JobBase, Ms(WEEK_IN_MS))]

\* The environments: every required key set, or all but one.
Environments ==
  LET all == {RequiredEnv[i] : i \in 1..Len(RequiredEnv)}
  IN {all} \cup {all \ {k} : k \in all}

\* How long after the previous run a run is triggered: an hour, a day or a
\* week later.
JobDelays == {Time(0, HOUR_IN_MS), Time(1, 0), Time(7, 0)}

InitReminder ==
  /\ pc = "input"
  /\ zone \in ReconcilerZones
  /\ referenceDate = JobBase
  /\ totalSprints = DefaultTotalSprints
  /\ schedule = <<>>
  /\ now = JobBase
  /\ activeSprint = NoEntry
  /\ ReconcilerIdle
  /\ DeadlineIdle
  /\ env \in Environments
  /\ board \in BoardDocuments
  /\ reminder \in {NoDocument, EarlierReminder}
  /\ outbox = <<>>
  /\ job = NoJob
  /\ SessionsIdle

coreVars == <<pc, scheduleVars, reconcilerVars, deadlineVars>>

\* main up to its first await (lines 31-45): the seven requireEnv calls, then
\* the board read is issued.  A throw rejects main's promise and the catch
\* handler sets the exit code (lines 156-159).
JobStart ==
  /\ job.pc \in {"idle", "done"}
  /\ job.run < MaxRuns
  /\ \E delay \in JobDelays :
       now' = IF job.run = 0 THEN now ELSE Plus(now, delay)
  /\ LET started == [NoJob EXCEPT !.run = job.run + 1,
                                  !.notifiedBefore = LastNotifiedAt(reminder)]
     IN job' = IF MissingEnv(env) # {}
                 THEN [started EXCEPT
                         !.pc = "done", !.exitCode = 1,
                         !.error = RequiredEnv[FirstIndex(MissingEnv(env))]]
                 ELSE [started EXCEPT !.pc = "reading"]
  /\ UNCHANGED <<pc, zone, referenceDate, totalSprints, schedule, activeSprint>>
  /\ UNCHANGED <<reconcilerVars, deadlineVars>>
  /\ UNCHANGED <<env, board, reminder, outbox>>
  /\ UNCHANGED sessionVars

\* The board read resolves (lines 45-85 or 45-120): no document throws; else
\* the tasks are reconciled and filtered, and either the zero snapshot write
\* or the email dispatch is issued.
JobBoardRead ==
  /\ job.pc = "reading"
  /\ IF ~board.exists
       THEN job' = [job EXCEPT !.pc = "done", !.exitCode = 1,
                               !.readBoard = TRUE,
                               !.error = "Board document does not exist"]
       ELSE LET rawTasks == IF board.tasks.kind = "array"
                              THEN board.tasks.items ELSE <<>>
                sched == buildSprintSchedule(zone, now, DefaultTotalSprints)
                result == ensureSprintDates(rawTasks, sched)
                active == getActiveSprint(zone, sched, now)
                outstanding == SprintOutstanding(result.tasks, active)
            IN job' = [job EXCEPT
                         !.pc = IF Len(outstanding) = 0 THEN "writing"
                                ELSE "sending",
                         !.readBoard = TRUE,
                         !.tasks = result.tasks,
                         !.activeSprint = active,
                         !.sprintOutstanding = outstanding]
  /\ UNCHANGED <<coreVars, env, board, reminder, outbox>>
  /\ UNCHANGED sessionVars

\* The board read rejects.
JobBoardReadFails ==
  /\ job.pc = "reading"
  /\ job' = [job EXCEPT !.pc = "done", !.exitCode = 1,
                        !.error = "board read rejected"]
  /\ UNCHANGED <<coreVars, env, board, reminder, outbox>>
  /\ UNCHANGED sessionVars

\* transporter.sendMail resolves (lines 120-153): the email is out, and the
\* write with lastNotifiedAt is issued.
JobSendMail ==
  /\ job.pc = "sending"
  /\ outbox' = Append(outbox,
                      [run |-> job.run, at |-> now,
                       sprintStart |-> job.activeSprint.start,
                       ids |-> [i \in 1..Len(job.sprintOutstanding) |->
                                  job.sprintOutstanding[i].id]])
  /\ job' = [job EXCEPT !.pc = "writing", !.mailed = TRUE]
  /\ UNCHANGED <<coreVars, env, board, reminder>>
  /\ UNCHANGED sessionVars

\* transporter.sendMail rejects.
JobSendMailFails ==
  /\ job.pc = "sending"
  /\ job' = [job EXCEPT !.pc = "done", !.exitCode = 1,
                        !.error = "sendMail rejected"]
  /\ UNCHANGED <<coreVars, env, board, reminder, outbox>>
  /\ UNCHANGED sessionVars

\* The write of reminders/{boardId} resolves and main returns.
JobWrite ==
  /\ job.pc = "writing"
  /\ reminder' = SetMerge(reminder,
                          ReminderData(now, job.activeSprint,
                                       job.sprintOutstanding))
  /\ job' = [job EXCEPT !.pc = "done", !.wrote = TRUE]
  /\ UNCHANGED <<coreVars, env, board, outbox>>
  /\ UNCHANGED sessionVars

\* The write of reminders/{boardId} rejects.
JobWriteFails ==
  /\ job.pc = "writing"
  /\ job' = [job EXCEPT !.pc = "done", !.exitCode = 1,
                        !.error = "write rejected"]
  /\ UNCHANGED <<coreVars, env, board, reminder, outbox>>
  /\ UNCHANGED sessionVars

NextReminder ==
  JobStart \/ JobBoardRead \/ JobBoardReadFails \/ JobSendMail
    \/ JobSendMailFails \/ JobWrite \/ JobWriteFails

SpecReminder == InitReminder /\ [][NextReminder]_vars

(***************************************************************************)
(* Claims about the reminder job.                                          *)
(***************************************************************************)
\* The run has come back from the board read with a document.
JobComputed == job.readBoard /\ board.exists

\* The run changed lastNotifiedAt of the reminder document.
NotifiedUpdated == LastNotifiedAt(reminder) # job.notifiedBefore

\* The emails of the current run.
MailsOfRun == {i \in 1..Len(outbox) : outbox[i].run = job.run}

\* C15: in a reminder-job run the reported tasks are exactly the reconciled
\* board tasks with type task-sprint, column other than done and resolved
\* sprint index equal to the active sprint's index; when there are none the
\* run sends no email, writes a snapshot with outstandingCount 0 and an empty
\* outstandingTasks list, and leaves lastNotifiedAt as it was.
C15_ReportedTasks ==
  JobComputed =>
    LET rawTasks == IF board.tasks.kind = "array" THEN board.tasks.items
                    ELSE <<>>
        sched == buildSprintSchedule(zone, now, DefaultTotalSprints)
        expected ==
          SelectSeq(ensureSprintDates(rawTasks, sched).tasks,
                    LAMBDA task :
                      /\ task.type = "task-sprint"
                      /\ task.column # "done"
                      /\ resolveTaskSprintIndex(task)
                           = getActiveSprint(zone, sched, now).index)
    IN /\ job.sprintOutstanding = expected
       /\ \A i \in MailsOfRun :
            outbox[i].ids = [k \in 1..Len(expected) |-> expected[k].id]
       /\ job.wrote =>
            /\ reminder.snapshot.outstandingCount = Len(expected)
            /\ [k \in 1..Len(expected) |-> reminder.snapshot.outstandingTasks[k].id]
                 = [k \in 1..Len(expected) |-> expected[k].id]
            /\ Len(reminder.snapshot.outstandingTasks) = Len(expected)
       /\ Len(expected) = 0 =>
            /\ MailsOfRun = {}
            /\ ~job.mailed
            /\ job.pc \in {"writing", "done"}
            /\ (job.pc = "done" /\ job.exitCode = 0) => job.wrote
            /\ job.wrote =>
                 /\ reminder.snapshot.outstandingCount = 0
                 /\ reminder.snapshot.outstandingTasks = <<>>
            /\ ~NotifiedUpdated

\* C15 witness: the board holds tasks and none is an open sprint task of the
\* active sprint; the run wrote the zero snapshot and the lastNotifiedAt of
\* an earlier run is still there.
C15_Witness ==
  /\ job.pc = "done"
  /\ job.wrote
  /\ Len(job.tasks) >= 1
  /\ Len(job.sprintOutstanding) = 0
  /\ outbox = <<>>
  /\ reminder.snapshot.outstandingCount = 0
  /\ LastNotifiedAt(reminder) = EarlierReminder.lastNotifiedAt

\* C16 as stated: the email is dispatched before the reminder document is
\* written, the populated snapshot with lastNotifiedAt is written only if the
\* dispatch succeeded, in every run lastNotifiedAt is updated if and only if
\* an email was sent in that run, and a failed dispatch ends the run with a
\* non-zero exit and no snapshot write.
C16_NotifiedIffMailed ==
  /\ (job.pc = "writing" /\ Len(job.sprintOutstanding) > 0) => job.mailed
  /\ job.pc = "done" =>
       /\ NotifiedUpdated <=> job.mailed
       /\ job.error = "sendMail rejected" =>
            (job.exitCode # 0 /\ ~job.wrote)

\* C16 amended: the email is dispatched before the reminder document is
\* written; lastNotifiedAt is updated in a run only if an email was sent in
\* that run, and it is updated, together with the populated snapshot, when
\* the email was sent and the write that follows succeeded.  When that write
\* fails the email has gone out, lastNotifiedAt keeps its old value and the
\* run exits non-zero; a failed dispatch ends the run with a non-zero exit
\* and no write.
C16_NotifiedOnlyAfterMail ==
  /\ (job.pc = "writing" /\ Len(job.sprintOutstanding) > 0) => job.mailed
  /\ job.mailed => (Len(job.sprintOutstanding) > 0 /\ MailsOfRun # {})
  /\ job.pc = "done" =>
       /\ NotifiedUpdated =>
            /\ job.mailed
            /\ job.wrote
            /\ reminder.lastNotifiedAt = now
            /\ reminder.snapshot.outstandingCount = Len(job.sprintOutstanding)
       /\ (job.mailed /\ job.exitCode = 0) => NotifiedUpdated
       /\ (job.mailed /\ ~job.wrote) => (job.exitCode # 0 /\ ~NotifiedUpdated)
       /\ job.error = "sendMail rejected" =>
            (job.exitCode # 0 /\ ~job.wrote /\ ~job.mailed /\ ~NotifiedUpdated)

\* C16 witness: the email of the run went out, the write after it was
\* rejected, and lastNotifiedAt is what it was before the run.
C16_Witness ==
  /\ job.pc = "done"
  /\ job.mailed
  /\ MailsOfRun # {}
  /\ ~job.wrote
  /\ job.exitCode = 1
  /\ ~NotifiedUpdated

\* A run whose email went out and whose write succeeded.
C16_NotifiedReached ==
  /\ job.pc = "done"
  /\ job.mailed
  /\ job.wrote
  /\ reminder.lastNotifiedAt = now

\* C17: when any required parameter of the reminder job is missing, the job
\* aborts with a non-zero exit code before reading the board, sending any
\* email or writing any document.
C17_MissingEnvAborts ==
  (job.run >= 1 /\ \E i \in 1..Len(RequiredEnv) : RequiredEnv[i] \notin env) =>
    /\ job.pc = "done"
    /\ job.exitCode # 0
    /\ ~job.readBoard
    /\ ~job.mailed
    /\ ~job.wrote
    /\ outbox = <<>>
    /\ reminder \in {NoDocument, EarlierReminder}

\* C17 witness: SMTP_PASSWORD, the last parameter main asks for, is the one
\* missing, and the second run has ended as the first did.
C17_Witness ==
  /\ "SMTP_PASSWORD" \notin env
  /\ job.run = 2
  /\ job.pc = "done"
  /\ job.exitCode = 1
  /\ job.error = "SMTP_PASSWORD"

\* C18: the reminder job is idempotent per sprint: with the board unchanged,
\* a second run within the same sprint sends no additional email, so no two
\* emails are about the sprint that starts on the same day.
C18_IdempotentPerSprint ==
  \A i, j \in 1..Len(outbox) :
    i # j => outbox[i].sprintStart # outbox[j].sprintStart

(***************************************************************************)
(* The board session (App.tsx, lines 179-792).  Each open App instance     *)
(* builds its schedule once, at mount, subscribes to boards/{boardId} and  *)
(* reconciles every snapshot; user mutations go through persistTasks.  A   *)
(* setDoc reaches the document when it is issued, and each listener is     *)
(* then called with the document, the writer's own listener included:      *)
(* every write carries a new updatedAt, so no listener takes the document  *)
(* for the one it was called with before.                                  *)
(***************************************************************************)
\* Two App instances, say a browser tab left open and one opened later,
\* numbered in the order they mount.
SessionIds == {1, 2}

Columns == {"todo", "inprogress", "done"}

\* const columnOrder: ColumnId[] = ["todo", "inprogress", "done"]
columnOrder == <<"todo", "inprogress", "done">>

\* An App instance that is not mounted.  pending tells that the listener is
\* still to be called with the document as it stands, lastWrite is the last
\* setDoc of the board the instance issued.
NoSession ==
  [mounted |-> FALSE, schedule |-> <<>>, activeSprint |-> NoEntry,
   tasks |-> <<>>, isLoading |-> TRUE,
   pending |-> FALSE, lastWrite |-> [kind |-> "none"]]

\* The document was written: the listener of every mounted instance is to be
\* called with it (onSnapshot, lines 303-305).
onSnapshot(all) ==
  [r \in SessionIds |->
     IF all[r].mounted THEN [all[r] EXCEPT !.pending = TRUE] ELSE all[r]]

\* import.meta.env.VITE_NOTIFICATION_EMAIL
reminderEmail == "VITE_NOTIFICATION_EMAIL"

\* The setDoc of syncReminderSnapshot (lines 371-402).
SyncReminderSnapshot(doc, session, tasksToSync, timestamp) ==
  LET outstanding == SelectSeq(tasksToSync, LAMBDA task : task.column # "done")
  IN SetMerge(doc,
              [snapshot |-> ReminderSnapshot(timestamp, session.activeSprint,
                                             outstanding),
               email |-> reminderEmail])

\* The seed tasks of the build (data/initialTasks).
SessionSeeds ==
  { <<[Fresh(Undefined, <<>>) EXCEPT !.id = 1, !.column = "inprogress"],
      [Fresh(Undefined, <<TagWeek2>>) EXCEPT !.id = 2]>> }

\* A subtask (types.ts, lines 5-9).
Subtask(id, done) == [id |-> id, done |-> done]

\* Stored tasks with subtasks: one in todo with its only subtask complete and
\* one in inprogress with its only subtask open; one in todo with its only
\* subtask open and one in done with its only subtask complete.
BoardsWithSubtasks ==
  { [exists |-> TRUE,
     tasks |-> Array(<<[Fresh(Undefined, <<>>) EXCEPT
                          !.id = 1, !.subtasks = Array(<<Subtask(1, TRUE)>>)],
                       [Fresh(Undefined, <<>>) EXCEPT
                          !.id = 2, !.column = "inprogress",
                          !.subtasks = Array(<<Subtask(1, FALSE)>>)]>>)],
    [exists |-> TRUE,
     tasks |-> Array(<<[Fresh(Undefined, <<>>) EXCEPT
                          !.id = 1, !.subtasks = Array(<<Subtask(1, FALSE)>>)],
                       [Fresh(Undefined, <<>>) EXCEPT
                          !.id = 2, !.column = "done",
                          !.subtasks = Array(<<Subtask(1, TRUE)>>)]>>)] }

\* The board document as the first session finds it: absent, without a
\* tasks array, or with raw tasks (no dates, a tag-week0 tag, dates of a
\* schedule long past), or with tasks that have subtasks.
SessionBoards ==
  BoardsWithSubtasks \cup
  { NoDocument,
    [exists |-> TRUE, tasks |-> Undefined],
    [exists |-> TRUE, tasks |-> Array(<<[Fresh(Undefined, <<>>) EXCEPT !.id = 1]>>)],
    [exists |-> TRUE, tasks |-> Array(<<[Fresh(Undefined, <<TagWeek0>>) EXCEPT !.id = 1]>>)],
    [exists |-> TRUE,
     tasks |-> Array(<<[NewTask(Undefined, Array(<<TagWeek2>>), StaleDate,
                                StaleDate, Array(<<>>)) EXCEPT !.id = 1]>>)] }

InitSessions ==
  /\ pc = "input"
  /\ zone \in {z \in Zones : z.name = "UTC"}
  /\ referenceDate = JobBase
  /\ tasks \in SessionSeeds
  /\ totalSprints = seededSprintCount(tasks)
  /\ schedule = <<>>
  /\ now = JobBase
  /\ activeSprint = NoEntry
  /\ resolved = <<>>
  /\ reconciled = NoResult
  /\ reconciledAgain = NoResult
  /\ DeadlineIdle
  /\ env = {}
  /\ board \in SessionBoards
  /\ reminder = NoDocument
  /\ outbox = <<>>
  /\ job = NoJob
  /\ sessions = [s \in SessionIds |-> NoSession]
  /\ mutations = 0
  /\ view = NoView

sessionFrame ==
  <<pc, zone, referenceDate, totalSprints, schedule, activeSprint,
    reconcilerVars, deadlineVars, env, outbox, job, view>>

\* A week passes: this week becomes the next.
Tick ==
  /\ now = JobBase
  /\ now' = Plus(now, Ms(WEEK_IN_MS))
  /\ UNCHANGED <<sessionFrame, board, reminder, sessions, mutations>>

\* App is mounted (lines 250-261 and 291-302): the schedule and the active
\* sprint are computed once, the tasks state starts as the reconciled seed
\* tasks, and the board listener is attached.
Mount(s) ==
  /\ ~sessions[s].mounted
  /\ \A r \in SessionIds : r < s => sessions[r].mounted
  /\ LET sched == buildSprintSchedule(zone, now, seededSprintCount(tasks))
     IN sessions' =
          [sessions EXCEPT ![s] =
             [NoSession EXCEPT
                !.mounted = TRUE,
                !.pending = TRUE,
                !.schedule = sched,
                !.activeSprint = getActiveSprint(zone, sched, now),
                !.tasks = ensureSprintDates(tasks, sched).tasks]]
  /\ UNCHANGED <<sessionFrame, now, board, reminder, mutations>>

\* The onSnapshot handler of the board (lines 304-347).
BoardSnapshot(s) ==
  /\ sessions[s].mounted
  /\ sessions[s].pending
  /\ IF board.exists
       THEN LET sourceTasks == IF board.tasks.kind = "array"
                                 THEN board.tasks.items ELSE tasks
                result == ensureSprintDates(sourceTasks, sessions[s].schedule)
                called == [sessions EXCEPT ![s] =
                             [@ EXCEPT
                                !.tasks = result.tasks,
                                !.isLoading = FALSE,
                                !.pending = FALSE,
                                !.lastWrite =
                                  IF result.changed
                                    THEN [kind |-> "writeback",
                                          tasks |-> result.tasks]
                                    ELSE @]]
            IN /\ sessions' = IF result.changed THEN onSnapshot(called)
                              ELSE called
               /\ board' =
                    IF result.changed
                      THEN SetMerge(board, [tasks |-> Array(result.tasks),
                                            updatedBy |-> s,
                                            updatedAt |-> now])
                      ELSE board
       ELSE LET seeded == ensureSprintDates(tasks, sessions[s].schedule).tasks
            IN /\ board' = [exists |-> TRUE, tasks |-> Array(seeded),
                            updatedBy |-> s, updatedAt |-> now]
               /\ sessions' =
                    onSnapshot(
                      [sessions EXCEPT ![s] =
                         [@ EXCEPT
                            !.tasks = seeded,
                            !.isLoading = FALSE,
                            !.lastWrite = [kind |-> "seed", tasks |-> seeded]]])
  /\ UNCHANGED <<sessionFrame, now, reminder, mutations>>

\* persistTasks(nextTasks) with the state update of the handler that called
\* it (lines 442-468): the board is replaced by the reconciled tasks and the
\* reminder snapshot is synced.
Persist(s, session, nextTasks) ==
  LET normalized == ensureSprintDates(nextTasks, session.schedule).tasks
  IN /\ board' = [exists |-> TRUE, tasks |-> Array(normalized),
                  updatedBy |-> s, updatedAt |-> now]
     /\ reminder' = SyncReminderSnapshot(reminder, session, normalized, now)
     /\ sessions' =
          onSnapshot(
            [sessions EXCEPT ![s] =
               [session EXCEPT !.tasks = nextTasks,
                               !.lastWrite = [kind |-> "persist",
                                              tasks |-> normalized]]])
     /\ mutations' = mutations + 1

\* A drag gesture: onDragStart sets draggingTaskId, handleDrop(columnId)
\* moves that task and clears it (lines 532-545, 779-780).
HandleDrop(s) ==
  /\ sessions[s].mounted
  /\ mutations < MaxMutations
  /\ \E idx \in 1..Len(sessions[s].tasks), columnId \in Columns :
       LET prev == sessions[s].tasks
           draggingTaskId == prev[idx].id
           next == [i \in 1..Len(prev) |->
                      IF prev[i].id = draggingTaskId
                        THEN [prev[i] EXCEPT !.column = columnId]
                        ELSE prev[i]]
       IN Persist(s, sessions[s], next)
  /\ UNCHANGED <<sessionFrame, now>>

\* moveTask(taskId, direction) (lines 557-584); nothing happens when the
\* column stays.
MoveTask(s) ==
  /\ sessions[s].mounted
  /\ mutations < MaxMutations
  /\ \E idx \in 1..Len(sessions[s].tasks),
        direction \in {"back", "forward"} \cup Columns :
       LET prev == sessions[s].tasks
           currentColumn == prev[idx].column
           currentIndex == CHOOSE k \in 1..3 : columnOrder[k] = currentColumn
           newIndex == currentIndex + (IF direction = "back" THEN -1 ELSE 1)
           nextColumn ==
             IF direction \in {"back", "forward"}
               THEN IF newIndex \in 1..3 THEN columnOrder[newIndex]
                    ELSE currentColumn
               ELSE direction
       IN /\ nextColumn # currentColumn
          /\ Persist(s, sessions[s],
                     [prev EXCEPT ![idx] = [@ EXCEPT !.column = nextColumn]])
  /\ UNCHANGED <<sessionFrame, now>>

\* handleAddSubtask(taskId, title) (lines 485-504).
HandleAddSubtask(s) ==
  /\ sessions[s].mounted
  /\ mutations < MaxMutations
  /\ \E idx \in 1..Len(sessions[s].tasks) :
       LET prev == sessions[s].tasks
           items == IF prev[idx].subtasks.kind = "array"
                      THEN prev[idx].subtasks.items ELSE <<>>
           added == Append(items, Subtask(Len(items) + 1, FALSE))
       IN Persist(s, sessions[s],
                  [prev EXCEPT ![idx] = [@ EXCEPT !.subtasks = Array(added)]])
  /\ UNCHANGED <<sessionFrame, now>>

\* The Mark Done button of a task card (BoardColumn.tsx, lines 193-205): it
\* is enabled when the task has a subtask, all its subtasks are complete and
\* it is not in done, and it calls onMoveTask(task.id, "forward"), which is
\* moveTask.
MarkDone(s) ==
  /\ sessions[s].mounted
  /\ mutations < MaxMutations
  /\ \E idx \in 1..Len(sessions[s].tasks) :
       LET prev == sessions[s].tasks
           task == prev[idx]
           subtasks == IF task.subtasks.kind = "array"
                         THEN task.subtasks.items ELSE <<>>
           allSubtasksComplete ==
             /\ Len(subtasks) > 0
             /\ \A k \in 1..Len(subtasks) : subtasks[k].done
           currentIndex == CHOOSE k \in 1..3 : columnOrder[k] = task.column
           newIndex == currentIndex + 1
           nextColumn == IF newIndex \in 1..3 THEN columnOrder[newIndex]
                         ELSE task.column
       IN /\ allSubtasksComplete
          /\ task.column # "done"
          /\ nextColumn # task.column
          /\ Persist(s, sessions[s],
                     [prev EXCEPT ![idx] = [@ EXCEPT !.column = nextColumn]])
  /\ UNCHANGED <<sessionFrame, now>>

\* handleToggleSubtask moving a task with all subtasks complete to done from
\* any column.
HandleToggleSubtaskFromAnyColumn(s) ==
  /\ sessions[s].mounted
  /\ mutations < MaxMutations
  /\ \E idx \in 1..Len(sessions[s].tasks), subtaskId \in 1..MaxMutations :
       LET prev == sessions[s].tasks
           items == IF prev[idx].subtasks.kind = "array"
                      THEN prev[idx].subtasks.items ELSE <<>>
           nextSubtasks == [k \in 1..Len(items) |->
                              IF items[k].id = subtaskId
                                THEN [items[k] EXCEPT !.done = ~items[k].done]
                                ELSE items[k]]
           allComplete == /\ Len(nextSubtasks) > 0
                          /\ \A k \in 1..Len(nextSubtasks) : nextSubtasks[k].done
           nextColumn == IF allComplete THEN "done" ELSE prev[idx].column
       IN Persist(s, sessions[s],
                  [prev EXCEPT ![idx] = [@ EXCEPT !.subtasks = Array(nextSubtasks),
                                                  !.column = nextColumn]])
  /\ UNCHANGED <<sessionFrame, now>>

\* handleToggleSubtask(taskId, subtaskId) (lines 506-530).
HandleToggleSubtask(s) ==
  /\ sessions[s].mounted
  /\ mutations < MaxMutations
  /\ \E idx \in 1..Len(sessions[s].tasks), subtaskId \in 1..MaxMutations :
       LET prev == sessions[s].tasks
           items == IF prev[idx].subtasks.kind = "array"
                      THEN prev[idx].subtasks.items ELSE <<>>
           nextSubtasks == [k \in 1..Len(items) |->
                              IF items[k].id = subtaskId
                                THEN [items[k] EXCEPT !.done = ~items[k].done]
                                ELSE items[k]]
           allComplete == /\ Len(nextSubtasks) > 0
                          /\ \A k \in 1..Len(nextSubtasks) : nextSubtasks[k].done
           nextColumn == IF allComplete /\ prev[idx].column = "inprogress"
                           THEN "done" ELSE prev[idx].column
       IN Persist(s, sessions[s],
                  [prev EXCEPT ![idx] = [@ EXCEPT !.subtasks = Array(nextSubtasks),
                                                  !.column = nextColumn]])
  /\ UNCHANGED <<sessionFrame, now>>

NextSessions ==
  \/ Tick
  \/ \E s \in SessionIds :
       \/ Mount(s)
       \/ BoardSnapshot(s)
       \/ HandleDrop(s)
       \/ MoveTask(s)
       \/ HandleAddSubtask(s)
       \/ HandleToggleSubtask(s)
       \/ MarkDone(s)

SpecSessions == InitSessions /\ [][NextSessions]_vars

\* Seed tasks and first documents whose tasks carry no week tag: the sprint
\* of each is its sprintIndex, or the first.
UntaggedSeeds ==
  { <<[Fresh(Undefined, <<>>) EXCEPT !.id = 1, !.column = "inprogress"],
      [Fresh(Undefined, <<>>) EXCEPT !.id = 2]>> }

UntaggedBoards ==
  BoardsWithSubtasks \cup
  { NoDocument,
    [exists |-> TRUE, tasks |-> Undefined],
    [exists |-> TRUE, tasks |-> Array(<<[Fresh(Undefined, <<>>) EXCEPT !.id = 1]>>)],
    [exists |-> TRUE, tasks |-> Array(<<[Fresh(Number(2), <<>>) EXCEPT !.id = 1]>>)] }

InitSessionsLive ==
  /\ pc = "input"
  /\ zone \in {z \in Zones : z.name = "UTC"}
  /\ referenceDate = JobBase
  /\ tasks \in UntaggedSeeds
  /\ totalSprints = seededSprintCount(tasks)
  /\ schedule = <<>>
  /\ now = JobBase
  /\ activeSprint = NoEntry
  /\ resolved = <<>>
  /\ reconciled = NoResult
  /\ reconciledAgain = NoResult
  /\ DeadlineIdle
  /\ env = {}
  /\ board \in UntaggedBoards
  /\ reminder = NoDocument
  /\ outbox = <<>>
  /\ job = NoJob
  /\ sessions = [s \in SessionIds |-> NoSession]
  /\ mutations = 0
  /\ view = NoView

\* The sessions under the scheduling of the listeners: one that is to be
\* called with the document is called in the end.
SpecSessionsLive ==
  /\ InitSessionsLive
  /\ [][NextSessions]_vars
  /\ \A s \in SessionIds : WF_vars(BoardSnapshot(s))

(***************************************************************************)
(* Claims about the board session.                                         *)
(***************************************************************************)
\* What session s would get from reconciling the document as it stands.
ReconcileCurrent(s) ==
  ensureSprintDates(IF board.tasks.kind = "array" THEN board.tasks.items
                    ELSE tasks,
                    sessions[s].schedule)

\* Every listener has been called with the current document and none of the
\* sessions would write it back.
Quiescent ==
  \A s \in SessionIds :
    sessions[s].mounted =>
      /\ ~sessions[s].pending
      /\ board.exists
      /\ ~ReconcileCurrent(s).changed

\* C19: the snapshot, reconcile, write-back loop does not loop or thrash: for
\* any number of sessions on the same board, each with the schedule it built
\* at mount, possibly in different weeks, and any initial board document,
\* once user mutations stop the sessions issue only finitely many write-backs
\* and the system reaches a state, and stays in it, where every session's
\* reconciliation of the current document reports changed = false.  Two
\* sessions mounted in different weeks write the dates of their own
\* schedules back in turn, without end.
C19_Quiesces == <>[]Quiescent

\* Two sessions are open whose schedules begin in different weeks.
SessionsInDifferentWeeks ==
  /\ sessions[1].mounted
  /\ sessions[2].mounted
  /\ sessions[1].schedule[1].start # sessions[2].schedule[1].start

\* The loop does settle while all open sessions share their schedule (holds
\* under SpecSessionsLive).
QuiescesInOneWeek == <>[](Quiescent \/ SessionsInDifferentWeeks)

\* Every task of list has a sprintIndex, the end and overflowEnd of one entry
\* of sched as its dueDate and overflowDate, and a subtasks array.
ReconciledAgainst(list, sched) ==
  \A i \in 1..Len(list) :
    /\ list[i].sprintIndex.kind = "number"
    /\ list[i].subtasks.kind = "array"
    /\ \E e \in 1..Len(sched) :
         /\ list[i].dueDate = toISOString(sched[e].end)
         /\ list[i].overflowDate = toISOString(sched[e].overflowEnd)

\* C20: in every reachable state of a board session the in-memory tasks and
\* the tasks of every board write the session issues (seed write, write-back,
\* the write after a drag, a move, an added or a toggled subtask) are
\* reconciled against the session's schedule; the document a session wrote
\* last holds exactly the tasks of that write.
C20_SessionTasksReconciled ==
  /\ \A s \in SessionIds :
       sessions[s].mounted =>
         /\ Len(sessions[s].schedule) >= 1
         /\ ReconciledAgainst(sessions[s].tasks, sessions[s].schedule)
         /\ sessions[s].lastWrite.kind # "none" =>
              ReconciledAgainst(sessions[s].lastWrite.tasks, sessions[s].schedule)
  /\ (board.exists /\ "updatedBy" \in DOMAIN board) =>
       /\ sessions[board.updatedBy].lastWrite.kind # "none"
       /\ board.tasks = Array(sessions[board.updatedBy].lastWrite.tasks)

\* C20 witness: the second session, mounted a week after the first, has
\* handled a user mutation on a board the first had written, and its write
\* is the document.
C20_Witness ==
  /\ SessionsInDifferentWeeks
  /\ mutations = 1
  /\ sessions[1].lastWrite.kind \in {"seed", "writeback"}
  /\ sessions[2].lastWrite.kind = "persist"
  /\ board.updatedBy = 2
  /\ \E i \in 1..Len(sessions[2].tasks) :
       /\ sessions[2].tasks[i].subtasks.kind = "array"
       /\ Len(sessions[2].tasks[i].subtasks.items) = 1

(***************************************************************************)
(* The classifier on tasks reconciled against a schedule built at the      *)
(* instant of the classification (App.tsx, lines 250-261; sendReminder.ts, *)
(* lines 54-55 and 89).                                                    *)
(***************************************************************************)
\* Tasks of the first sprint, of a later one, of one beyond the schedule, of
\* sprint 0, with a sprintIndex that is NaN, and with dates long past.
RebuiltTasks ==
  { Fresh(Undefined, <<>>),
    Fresh(Undefined, <<TagWeek2>>),
    Fresh(Undefined, <<TagWeek0>>),
    Fresh(Number(9), <<>>),
    Fresh(NaN, <<TagCore>>),
    NewTask(Number(1), Array(<<>>), StaleDate, StaleDate, Array(<<>>)) }

InitRebuilt ==
  /\ pc = "input"
  /\ zone \in Zones
  /\ \E d \in RefDays, tm \in RefTimes :
       referenceDate = FromLocal(zone, [day |-> d, ms |-> tm])
  /\ totalSprints \in 1..MaxSprints
  /\ schedule = <<>>
  /\ now = referenceDate
  /\ activeSprint = NoEntry
  /\ \E task \in RebuiltTasks : tasks = <<[task EXCEPT !.id = 1]>>
  /\ resolved = <<>>
  /\ reconciled = NoResult
  /\ reconciledAgain = NoResult
  /\ DeadlineIdle
  /\ SystemIdle

\* ensureSprintDates(tasks, schedule) with the schedule just built.
ReconcileBuilt ==
  /\ pc = "built"
  /\ reconciled' = ensureSprintDates(tasks, schedule)
  /\ pc' = "reconciled"
  /\ UNCHANGED <<tasks, resolved, reconciledAgain>>
  /\ UNCHANGED <<scheduleVars, deadlineVars>>
  /\ UNCHANGED systemVars

\* describeTaskDeadline(task, now) on a reconciled task; target keeps the
\* due date of the task described.
DescribeReconciled ==
  /\ pc = "reconciled"
  /\ \E i \in 1..Len(reconciled.tasks) :
       /\ descriptor' = describeTaskDeadline(zone, reconciled.tasks[i], now)
       /\ target' = reconciled.tasks[i].dueDate
  /\ pc' = "described"
  /\ UNCHANGED <<remaining, nextReminder>>
  /\ UNCHANGED <<scheduleVars, reconcilerVars>>
  /\ UNCHANGED systemVars

NextRebuilt == BuildSchedule \/ ReconcileBuilt \/ DescribeReconciled

SpecRebuilt == InitRebuilt /\ [][NextRebuilt]_vars

DescribeLater ==
  /\ pc \in {"described", "later"}
  /\ \E n \in DeadlineInstants :
       /\ Lt(now, n)
       /\ now' = n
       /\ descriptor' = describeTaskDeadline(zone, tasks[1], n)
  /\ pc' = "later"
  /\ UNCHANGED <<target, remaining, nextReminder>>
  /\ UNCHANGED <<zone, referenceDate, totalSprints, schedule, activeSprint>>
  /\ UNCHANGED reconcilerVars
  /\ UNCHANGED systemVars

NextOverTime == Describe \/ DescribeLater

SpecOverTime == InitDeadline /\ [][NextOverTime]_vars

\* The order of the statuses in time.
StatusRank(status) ==
  CASE status = "none" -> 0
    [] status = "ontrack" -> 1
    [] status = "overflow" -> 2
    [] status = "late" -> 3

\* The task described has a due date that is not after its overflow date.
DueBeforeOverflow ==
  /\ tasks[1].dueDate.kind = "string"
  /\ tasks[1].overflowDate.kind = "string"
  /\ Leq(parseDate(tasks[1].dueDate), parseDate(tasks[1].overflowDate))

\* C28: for a fixed task with dueDate <= overflowDate the status is monotone
\* in now: described again at a later instant, the task has the status it
\* had or one further on in the order ontrack, overflow, late.
C28_StatusMonotone ==
  [][(pc \in {"described", "later"} /\ pc' = "later" /\ DueBeforeOverflow)
       => /\ Lt(now, now')
          /\ StatusRank(descriptor'.status) >= StatusRank(descriptor.status)
          /\ descriptor.status # "none"]_vars

\* C28 witness: a task whose overflow date is half a day after its due date,
\* described again one millisecond after the overflow date, is late.
C28_Witness ==
  /\ pc = "later"
  /\ DueBeforeOverflow
  /\ Minus(parseDate(tasks[1].overflowDate), parseDate(tasks[1].dueDate))
       = Ms(12 * HOUR_IN_MS)
  /\ now = Plus(parseDate(tasks[1].overflowDate), Ms(1))
  /\ descriptor.status = "late"

(***************************************************************************)
(* The next reminder date (text.ts, lines 212-225; App.tsx, line 607).     *)
(***************************************************************************)
\* Local times of day of the reference instants, with the millisecond
\* before and after 09:00.
ReminderTimes == RefTimes \cup {9 * HOUR_IN_MS - 1, 9 * HOUR_IN_MS + 1}

InitNextReminder ==
  /\ pc = "input"
  /\ zone \in Zones
  /\ \E d \in RefDays, tm \in ReminderTimes :
       referenceDate = FromLocal(zone, [day |-> d, ms |-> tm])
  /\ totalSprints = 0
  /\ schedule = <<>>
  /\ now = referenceDate
  /\ activeSprint = NoEntry
  /\ ReconcilerIdle
  /\ DeadlineIdle
  /\ SystemIdle

GetNextReminderDate ==
  /\ pc = "input"
  /\ nextReminder' = getNextReminderDate(zone, referenceDate)
  /\ pc' = "next"
  /\ UNCHANGED <<descriptor, target, remaining>>
  /\ UNCHANGED <<scheduleVars, reconcilerVars>>
  /\ UNCHANGED systemVars

NextNextReminder == GetNextReminderDate

SpecNextReminder == InitNextReminder /\ [][NextNextReminder]_vars

\* The date returned is a Friday at 09:00:00.000 local time, strictly after
\* the reference; on a Friday before 09:00 it is that day, on a Friday at or
\* after 09:00 the Friday of the following week.
NextFridayAtNine ==
  LET ref == ToLocal(zone, referenceDate)
      next == ToLocal(zone, nextReminder)
  IN /\ getDay(zone, nextReminder) = 5
     /\ next.ms = 9 * HOUR_IN_MS
     /\ Lt(referenceDate, nextReminder)
     /\ (getDay(zone, referenceDate) = 5 /\ ref.ms < 9 * HOUR_IN_MS)
          => next.day = ref.day
     /\ (getDay(zone, referenceDate) = 5 /\ ref.ms >= 9 * HOUR_IN_MS)
          => next.day = ref.day + 7

SyncedBy(s) ==
  /\ sessions[s].mounted
  /\ sessions[s].lastWrite.kind = "persist"
  /\ reminder.exists
  /\ reminder = SyncReminderSnapshot(NoDocument, sessions[s],
                                     sessions[s].lastWrite.tasks,
                                     reminder.snapshot.generatedAt)

\* What the job writes as snapshot for the tasks and the active sprint of
\* session s.
JobSnapshotFor(s) ==
  ReminderSnapshot(reminder.snapshot.generatedAt, sessions[s].activeSprint,
                   SprintOutstanding(sessions[s].lastWrite.tasks,
                                     sessions[s].activeSprint))

\* C24: the snapshot a board session mirrors to reminders/{boardId} has the
\* outstandingTasks and outstandingCount that the reminder job would write
\* for the same tasks and active sprint: the tasks of type task-sprint that
\* are not done and whose resolved sprint index is the active sprint's.
C24_SnapshotAsTheJobs ==
  \A s \in SessionIds :
    SyncedBy(s) =>
      /\ reminder.snapshot.outstandingTasks = JobSnapshotFor(s).outstandingTasks
      /\ reminder.snapshot.outstandingCount = JobSnapshotFor(s).outstandingCount

\* The session's snapshot does agree with the job's on the sprint.
SnapshotSprintAsTheJobs ==
  \A s \in SessionIds :
    SyncedBy(s) =>
      /\ reminder.snapshot.sprintIndex = JobSnapshotFor(s).sprintIndex
      /\ reminder.snapshot.sprintEnd = JobSnapshotFor(s).sprintEnd

(***************************************************************************)
(* Claims about the handlers of the board session.                         *)
(***************************************************************************)
\* All subtasks of a task are complete and there is at least one.
AllSubtasksComplete(task) ==
  /\ task.subtasks.kind = "array"
  /\ Len(task.subtasks.items) > 0
  /\ \A k \in 1..Len(task.subtasks.items) : task.subtasks.items[k].done

\* C25: activating Mark Done on a task that has at least one subtask, all of
\* them complete, and that is not in the done column leaves the task in the
\* done column, whichever column (todo or inprogress) it started in: the
\* task whose column the step changes is in done after it.
C25_MarkDoneMovesToDone ==
  [][\A s \in SessionIds :
       MarkDone(s) =>
         \A i \in 1..Len(sessions[s].tasks) :
           (AllSubtasksComplete(sessions[s].tasks[i])
              /\ sessions'[s].tasks[i].column # sessions[s].tasks[i].column)
             => sessions'[s].tasks[i].column = "done"]_vars

\* Mark Done does move a task of the inprogress column to done, and a task
\* of the todo column to inprogress.
MarkDoneMovesForward ==
  [][\A s \in SessionIds :
       MarkDone(s) =>
         \E i \in 1..Len(sessions[s].tasks) :
           /\ AllSubtasksComplete(sessions[s].tasks[i])
           /\ \/ /\ sessions[s].tasks[i].column = "inprogress"
                 /\ sessions'[s].tasks[i].column = "done"
              \/ /\ sessions[s].tasks[i].column = "todo"
                 /\ sessions'[s].tasks[i].column = "inprogress"]_vars

\* The step toggles a subtask of task i of session s: the other tasks stay,
\* and of task i only subtasks and column may differ, the subtasks in the
\* done flag of the subtasks with one id.
TogglesTask(s, i) ==
  LET before == sessions[s].tasks
      after == sessions'[s].tasks
  IN /\ Len(after) = Len(before)
     /\ \A j \in 1..Len(before) : j # i => after[j] = before[j]
     /\ [after[i] EXCEPT !.subtasks = before[i].subtasks,
                         !.column = before[i].column] = before[i]
     /\ after[i].subtasks.kind = "array"
     /\ before[i].subtasks.kind = "array"
     /\ Len(after[i].subtasks.items) = Len(before[i].subtasks.items)
     /\ \E subtaskId \in 1..MaxMutations :
          \A k \in 1..Len(before[i].subtasks.items) :
            after[i].subtasks.items[k] =
              IF before[i].subtasks.items[k].id = subtaskId
                THEN [before[i].subtasks.items[k] EXCEPT !.done = ~@]
                ELSE before[i].subtasks.items[k]

\* C29: handleToggleSubtask changes the column of the toggled task in one
\* case only: when after the toggle the task has at least one subtask, all
\* are done and the task is in inprogress, it moves to done; a task in todo
\* or done keeps its column, un-checking never moves a task back, and every
\* other task is unchanged.
C29_ToggleMovesOnlyFromInProgress ==
  [][\A s \in SessionIds :
       HandleToggleSubtask(s) =>
         \E i \in 1..Len(sessions[s].tasks) :
           /\ TogglesTask(s, i)
           /\ sessions'[s].tasks[i].column =
                IF AllSubtasksComplete(sessions'[s].tasks[i])
                     /\ sessions[s].tasks[i].column = "inprogress"
                  THEN "done"
                  ELSE sessions[s].tasks[i].column]_vars

\* C29 witness: the open subtask of the inprogress task was checked, and the
\* task is in done with all its subtasks complete; the other task, in todo
\* with all its subtasks complete, stayed.
C29_Witness ==
  \E s \in SessionIds :
    /\ mutations = 1
    /\ sessions[s].lastWrite.kind = "persist"
    /\ Len(sessions[s].tasks) = 2
    /\ sessions[s].tasks[1].column = "todo"
    /\ AllSubtasksComplete(sessions[s].tasks[1])
    /\ sessions[s].tasks[2].column = "done"
    /\ AllSubtasksComplete(sessions[s].tasks[2])

(***************************************************************************)
(* The App view step by step (main.tsx, lines 19-23; App.tsx, lines        *)
(* 262-468 and 532-545): the bootstrap effect with its asynchronous        *)
(* sign-in, the reminder subscription, the sync effect, and persistTasks   *)
(* with its writes in flight.  The Firestore client sends the writes in    *)
(* the order they were issued, so the oldest one completes first; a write  *)
(* reaches the document when it completes.                                 *)
(***************************************************************************)
\* How many calls of persistTasks the view makes.
MaxCalls == 2

\* The seed tasks of the build: one task.
ViewSeeds == { <<[Fresh(Undefined, <<>>) EXCEPT !.id = 1]>> }

\* The board document as the view finds it: absent, or with a raw task.
ViewBoards ==
  { NoDocument,
    [exists |-> TRUE,
     tasks |-> Array(<<[Fresh(Undefined, <<>>) EXCEPT
                          !.id = 1, !.column = "inprogress"]>>)] }

\* The page is loaded with or without a Firebase user kept from before.
InitView ==
  /\ pc = "input"
  /\ zone \in {z \in Zones : z.name = "UTC"}
  /\ referenceDate = JobBase
  /\ tasks \in ViewSeeds
  /\ totalSprints = seededSprintCount(tasks)
  /\ schedule = <<>>
  /\ now = JobBase
  /\ activeSprint = NoEntry
  /\ resolved = <<>>
  /\ reconciled = NoResult
  /\ reconciledAgain = NoResult
  /\ DeadlineIdle
  /\ env = {}
  /\ board \in ViewBoards
  /\ reminder = NoDocument
  /\ outbox = <<>>
  /\ job = NoJob
  /\ sessions = <<>>
  /\ mutations = 0
  /\ view \in {[NoView EXCEPT !.currentUser = user] : user \in BOOLEAN}

viewFrame ==
  <<pc, zone, referenceDate, totalSprints, schedule, activeSprint,
    reconcilerVars, deadlineVars, now, env, outbox, job, sessions, mutations>>

\* A remote operation as it is issued: a subscription (onSnapshot) or a
\* write (setDoc) of a document, with whether Firebase has a signed-in user
\* at that moment.
RemoteOp(op, doc) == [op |-> op, doc |-> doc, signedIn |-> view.currentUser]

\* One run of the bootstrap effect (lines 291-369) up to the first await:
\* with auth.currentUser set, onSnapshot is called and unsubscribe assigned
\* before bootstrap() returns; otherwise signInAnonymously is pending and
\* unsubscribe is undefined.  cleaned tells that the cleanup of the run,
\* () => unsubscribe?.(), has been called.
bootstrap(cleaned) ==
  IF view.currentUser
    THEN [signIn |-> "none", cleaned |-> cleaned, unsubscribe |-> TRUE,
          listening |-> ~cleaned, pending |-> ~cleaned]
    ELSE [signIn |-> "pending", cleaned |-> cleaned, unsubscribe |-> FALSE,
          listening |-> FALSE, pending |-> FALSE]

\* The board document was written: every board listener of the view is to
\* be called with it.
notify(effects) ==
  [e \in 1..Len(effects) |->
     IF effects[e].listening THEN [effects[e] EXCEPT !.pending = TRUE]
     ELSE effects[e]]

\* createRoot(...).render(<StrictMode><App /></StrictMode>): the effects run
\* once in a production build; in a development build StrictMode runs them,
\* cleans them up and runs them again.
ViewMount ==
  /\ ~view.mounted
  /\ ~view.torn
  /\ \E strict \in BOOLEAN :
       LET sched == buildSprintSchedule(zone, now, seededSprintCount(tasks))
       IN view' =
            [view EXCEPT
               !.mounted = TRUE,
               !.schedule = sched,
               !.activeSprint = getActiveSprint(zone, sched, now),
               !.tasks = ensureSprintDates(tasks, sched).tasks,
               !.effects = IF strict THEN <<bootstrap(TRUE), bootstrap(FALSE)>>
                           ELSE <<bootstrap(FALSE)>>,
               !.reminderListening = TRUE,
               !.reminderPending = TRUE,
               !.ops = @ \cup {RemoteOp("subscribe", "reminders")}
                         \cup (IF view.currentUser
                                 THEN {RemoteOp("subscribe", "boards")}
                                 ELSE {})]
  /\ UNCHANGED <<viewFrame, board, reminder>>

\* signInAnonymously resolves for run e of the bootstrap effect (lines
\* 298-303): the user id is set and onSnapshot subscribes to the board,
\* whether or not the cleanup of the run has been called.
SignInResolves(e) ==
  /\ e \in 1..Len(view.effects)
  /\ view.effects[e].signIn = "pending"
  /\ view' =
       [view EXCEPT
          !.currentUser = TRUE,
          !.effects[e] = [@ EXCEPT !.signIn = "resolved",
                                   !.unsubscribe = TRUE,
                                   !.listening = TRUE,
                                   !.pending = TRUE],
          !.ops = @ \cup {[op |-> "subscribe", doc |-> "boards",
                           signedIn |-> TRUE]}]
  /\ UNCHANGED <<viewFrame, board, reminder>>

\* signInAnonymously rejects for run e (lines 356-364).
SignInRejects(e) ==
  /\ e \in 1..Len(view.effects)
  /\ view.effects[e].signIn = "pending"
  /\ view' =
       [view EXCEPT
          !.effects[e] = [@ EXCEPT !.signIn = "rejected"],
          !.error = "Could not authenticate",
          !.isLoading = FALSE]
  /\ UNCHANGED <<viewFrame, board, reminder>>

\* The view is unmounted: the cleanup of the current run of each effect is
\* called (lines 368 and 431).  unsubscribe?.() releases the board listener
\* when unsubscribe has been assigned and does nothing otherwise.
Teardown ==
  /\ view.mounted
  /\ view' =
       [view EXCEPT
          !.mounted = FALSE,
          !.torn = TRUE,
          !.effects =
            [e \in 1..Len(view.effects) |->
               IF view.effects[e].cleaned THEN view.effects[e]
               ELSE [view.effects[e] EXCEPT
                       !.cleaned = TRUE,
                       !.listening = IF view.effects[e].unsubscribe
                                       THEN FALSE ELSE @,
                       !.pending = IF view.effects[e].unsubscribe
                                     THEN FALSE ELSE @]],
          !.reminderListening = FALSE,
          !.reminderPending = FALSE]
  /\ UNCHANGED <<viewFrame, board, reminder>>

\* The board listener of run e is called (lines 304-347).
ViewBoardSnapshot(e) ==
  /\ e \in 1..Len(view.effects)
  /\ view.effects[e].listening
  /\ view.effects[e].pending
  /\ LET sourceTasks == IF board.exists /\ board.tasks.kind = "array"
                          THEN board.tasks.items ELSE tasks
         result == ensureSprintDates(sourceTasks, view.schedule)
         writes == ~board.exists \/ result.changed
         called == [view.effects EXCEPT ![e] = [@ EXCEPT !.pending = FALSE]]
     IN /\ view' =
             [view EXCEPT
                !.tasks = result.tasks,
                !.isLoading = FALSE,
                !.error = "null",
                !.effects = IF writes THEN notify(called) ELSE called,
                !.issued = IF writes THEN @ + 1 ELSE @,
                !.ops = IF writes THEN @ \cup {RemoteOp("write", "boards")}
                        ELSE @]
        /\ board' =
             IF ~board.exists
               THEN [exists |-> TRUE, tasks |-> Array(result.tasks),
                     updatedBy |-> "user", updatedAt |-> now]
               ELSE IF result.changed
                 THEN SetMerge(board, [tasks |-> Array(result.tasks),
                                       updatedBy |-> "user",
                                       updatedAt |-> now])
                 ELSE board
  /\ UNCHANGED <<viewFrame, reminder>>

\* The reminder listener is called (lines 404-432).
ViewReminderSnapshot ==
  /\ view.reminderListening
  /\ view.reminderPending
  /\ view' =
       [view EXCEPT
          !.reminderPending = FALSE,
          !.reminderSnapshot =
            reminder.exists /\ "snapshot" \in DOMAIN reminder]
  /\ UNCHANGED <<viewFrame, board, reminder>>

\* The sync effect (lines 434-440) with the syncReminderSnapshot it starts
\* (lines 371-402).
SyncEffect ==
  /\ view.mounted
  /\ ~view.isLoading
  /\ Len(view.tasks) # 0
  /\ ~view.reminderSnapshot
  /\ reminder' = SyncReminderSnapshot(reminder, view, view.tasks, now)
  /\ view' =
       [view EXCEPT
          !.reminderSnapshot = TRUE,
          !.reminderPending = view.reminderListening,
          !.ops = @ \cup {RemoteOp("write", "reminders")}]
  /\ UNCHANGED <<viewFrame, board>>

\* The start of persistTasks(nextTasks) (lines 442-453): setIsSaving(true)
\* and the setDoc of the board is issued.
persistTasks(state, nextTasks) ==
  [state EXCEPT
     !.isSaving = TRUE,
     !.calls = @ + 1,
     !.issued = @ + 1,
     !.writes = Append(@, [call |-> state.calls + 1, doc |-> "boards",
                           tasks |-> ensureSprintDates(nextTasks,
                                                       state.schedule).tasks]),
     !.ops = @ \cup {RemoteOp("write", "boards")}]

\* A drag gesture on the board, which the loading overlay covers while
\* isLoading (lines 532-545 and 653): the tasks state is updated and
\* persistTasks is called.
ViewHandleDrop ==
  /\ view.mounted
  /\ ~view.isLoading
  /\ view.calls < MaxCalls
  /\ \E idx \in 1..Len(view.tasks), columnId \in Columns :
       LET prev == view.tasks
           draggingTaskId == prev[idx].id
           next == [i \in 1..Len(prev) |->
                      IF prev[i].id = draggingTaskId
                        THEN [prev[i] EXCEPT !.column = columnId]
                        ELSE prev[i]]
       IN view' = persistTasks([view EXCEPT !.tasks = next], next)
  /\ UNCHANGED <<viewFrame, board, reminder>>

\* The oldest write in flight resolves.  For the write of the board (lines
\* 454-460) the call goes on to syncReminderSnapshot, which issues the write
\* of the reminder document; for that write (lines 393-401 and 465-467) the
\* snapshot state is set and the finally block clears isSaving.
WriteResolves ==
  /\ view.writes # <<>>
  /\ LET head == Head(view.writes)
     IN IF head.doc = "boards"
          THEN /\ board' = [exists |-> TRUE, tasks |-> Array(head.tasks),
                            updatedBy |-> IF view.currentUser THEN "user"
                                          ELSE "anonymous",
                            updatedAt |-> now]
               /\ view' =
                    [view EXCEPT
                       !.effects = notify(@),
                       !.writes = Append(Tail(@),
                                         [head EXCEPT !.doc = "reminders"]),
                       !.ops = @ \cup {RemoteOp("write", "reminders")}]
               /\ UNCHANGED reminder
          ELSE /\ reminder' =
                    SyncReminderSnapshot(reminder, view, head.tasks, now)
               /\ view' =
                    [view EXCEPT
                       !.reminderSnapshot = TRUE,
                       !.reminderPending = view.reminderListening,
                       !.isSaving = FALSE,
                       !.writes = Tail(@)]
               /\ UNCHANGED board
  /\ UNCHANGED viewFrame

\* A persistTasks whose rejected write leaves isSaving as it is.
WriteFailsStillSaving ==
  /\ view.writes # <<>>
  /\ view' =
       [view EXCEPT
          !.error = "Unable to sync changes",
          !.writes = Tail(@)]
  /\ UNCHANGED <<viewFrame, board, reminder>>

\* The oldest write in flight rejects (lines 461-467): the catch block sets
\* the error and the finally block clears isSaving.
WriteFails ==
  /\ view.writes # <<>>
  /\ view' =
       [view EXCEPT
          !.error = "Unable to sync changes",
          !.isSaving = FALSE,
          !.writes = Tail(@)]
  /\ UNCHANGED <<viewFrame, board, reminder>>

NextView ==
  \/ ViewMount
  \/ \E e \in 1..2 : SignInResolves(e)
  \/ \E e \in 1..2 : SignInRejects(e)
  \/ Teardown
  \/ \E e \in 1..2 : ViewBoardSnapshot(e)
  \/ ViewReminderSnapshot
  \/ SyncEffect
  \/ ViewHandleDrop
  \/ WriteResolves
  \/ WriteFails

SpecView == InitView /\ [][NextView]_vars

\* The writes of the board that persistTasks issued and that are in flight.
BoardWritesInFlight ==
  {k \in 1..Len(view.writes) : view.writes[k].doc = "boards"}

\* C27: while the view is mounted, isSaving is true whenever a write of the
\* board issued by persistTasks is in flight, overlapping calls included.
C27_SavingWhileInFlight ==
  (view.mounted /\ BoardWritesInFlight # {}) => view.isSaving

\* C22: no board subscription of a bootstrap effect run whose cleanup has
\* been called is active, however the cleanup and the sign-in interleave.
C22_NoSubscriptionAfterCleanup ==
  \A e \in 1..Len(view.effects) :
    view.effects[e].cleaned => ~view.effects[e].listening

\* C23: every subscription and every write the view issues is issued while
\* Firebase has a signed-in user.
C23_AuthenticatedBeforeRemote ==
  \A o \in view.ops : o.signedIn

\* C21: when a write of the board issued by persistTasks rejects, the tasks
\* state stays as the handler set it, the error is set, isSaving is cleared,
\* the document stays, and no write of the board is issued by that step; a
\* write of the board is issued only by a user mutation or by the listener
\* called with a snapshot.
C21_FailedWriteKeepsLocalState ==
  [][/\ (WriteFails /\ Head(view.writes).doc = "boards") =>
          /\ view'.tasks = view.tasks
          /\ view'.error = "Unable to sync changes"
          /\ ~view'.isSaving
          /\ view'.issued = view.issued
          /\ view'.writes = Tail(view.writes)
          /\ board' = board
     /\ (view'.issued > view.issued) =>
          (ViewHandleDrop \/ \E e \in 1..2 : ViewBoardSnapshot(e))]_vars

\* C21 witness: the only call of persistTasks failed at the write of the
\* board: nothing is in flight, the error is set, isSaving is cleared, and
\* the task is in another column in the tasks state than in the document.
C21_Witness ==
  /\ view.mounted
  /\ view.calls = 1
  /\ view.writes = <<>>
  /\ view.error = "Unable to sync changes"
  /\ ~view.isSaving
  /\ board.exists
  /\ view.tasks[1].column # board.tasks.items[1].column

====
